---- MODULE Spec2Model ----
(***************************************************************************)
(* Model of the rule-driven validation engine of                           *)
(* src/validation-framework/src/validation-engine.js (class                *)
(* ValidationEngine) together with the caller-side operations that the     *)
(* repository's drivers perform on it (test-direct.js), and of the HTTP    *)
(* handlers that share one engine and one rules file (src/index.js,        *)
(* RuleManagementAPI), each handler running from one await to the next.    *)
(*                                                                         *)
(* JavaScript values are modelled as tagged records, JavaScript strings as *)
(* sequences of one-character strings, so that coercion, trimming, length, *)
(* wildcard matching and regular-expression compilation are computed and   *)
(* not assumed.  Numbers are the integers plus NaN, Infinity and           *)
(* -Infinity.                                                              *)
(***************************************************************************)
EXTENDS Integers, Sequences, FiniteSets, TLC

VARIABLES
    heap,        \* array reference -> sequence of rules (the JS arrays);
                 \* under SpecCase also "record" -> the caller's record
    rules,       \* this.rules: the reference the engine holds
    results,     \* this.results: the engine's current result list
    ret,         \* what the last validate() call gave its caller
    op,          \* the last operation performed on the engine
    arg,         \* the argument of that operation
    loaded,      \* reference and contents handed to the last loadRules
    iterated,    \* the rules the last validate() call iterated over
    repeat,      \* the last two operations were validate() of one record
    caller,      \* a result list the caller kept from an earlier validate()
    server       \* the HTTP server: the rules file and the requests in flight

vars == <<heap, rules, results, ret, op, arg, loaded, iterated, repeat,
          caller, server>>

----------------------------------------------------------------------------
(* JavaScript values                                                        *)

Undefined == [t |-> "undefined"]
Null      == [t |-> "null"]
Bool(b)   == [t |-> "boolean", b |-> b]
Num(n)    == [t |-> "number", k |-> "fin", n |-> n]
NaN       == [t |-> "number", k |-> "nan", n |-> 0]
PosInf    == [t |-> "number", k |-> "inf", n |-> 0]
NegInf    == [t |-> "number", k |-> "ninf", n |-> 0]
Str(s)    == [t |-> "string", s |-> s]
\* a template literal: fixed text with the interpolated values
Msg(text, args) == [t |-> "string", text |-> text, args |-> args]
\* an identifier interpolated into a template literal
Tag(a)    == [t |-> "string", tag |-> a]

\* const x = e; ... : e is evaluated once and its value is named
Const(e, F(_)) == CHOOSE y \in {F(x) : x \in {e}} : TRUE

IsNullish(v) == v.t = "undefined" \/ v.t = "null"
IsNum(v)     == v.t = "number"
IsFin(v)     == v.t = "number" /\ v.k = "fin"
IsStr(v)     == v.t = "string"
IsNaNValue(v) == v.t = "number" /\ v.k = "nan"

Digits == {"0", "1", "2", "3", "4", "5", "6", "7", "8", "9"}
Lower  == {"a", "b", "c", "d", "e", "f", "g", "h", "i", "j", "k", "l", "m",
           "n", "o", "p", "q", "r", "s", "t", "u", "v", "w", "x", "y", "z"}
Upper  == {"A", "B", "C", "D", "E", "F", "G", "H", "I", "J", "K", "L", "M",
           "N", "O", "P", "Q", "R", "S", "T", "U", "V", "W", "X", "Y", "Z"}
Letters == Lower \cup Upper
WhiteSpace == {" "}

DigitVal(c) ==
    CASE c = "0" -> 0 [] c = "1" -> 1 [] c = "2" -> 2 [] c = "3" -> 3
      [] c = "4" -> 4 [] c = "5" -> 5 [] c = "6" -> 6 [] c = "7" -> 7
      [] c = "8" -> 8 [] c = "9" -> 9

DigitChar(d) ==
    CASE d = 0 -> "0" [] d = 1 -> "1" [] d = 2 -> "2" [] d = 3 -> "3"
      [] d = 4 -> "4" [] d = 5 -> "5" [] d = 6 -> "6" [] d = 7 -> "7"
      [] d = 8 -> "8" [] d = 9 -> "9"

\* String.prototype.toLowerCase on one character (the 'i' flag of RegExp)
LowerOf(c) ==
    CASE c = "A" -> "a" [] c = "B" -> "b" [] c = "C" -> "c" [] c = "D" -> "d"
      [] c = "E" -> "e" [] c = "F" -> "f" [] c = "G" -> "g" [] c = "H" -> "h"
      [] c = "I" -> "i" [] c = "J" -> "j" [] c = "K" -> "k" [] c = "L" -> "l"
      [] c = "M" -> "m" [] c = "N" -> "n" [] c = "O" -> "o" [] c = "P" -> "p"
      [] c = "Q" -> "q" [] c = "R" -> "r" [] c = "S" -> "s" [] c = "T" -> "t"
      [] c = "U" -> "u" [] c = "V" -> "v" [] c = "W" -> "w" [] c = "X" -> "x"
      [] c = "Y" -> "y" [] c = "Z" -> "z" [] OTHER -> c

\* String.prototype.trim
Trim(s) ==
    IF \A i \in 1..Len(s) : s[i] \in WhiteSpace THEN <<>>
    ELSE LET first == CHOOSE i \in 1..Len(s) :
                         /\ s[i] \notin WhiteSpace
                         /\ \A j \in 1..(i - 1) : s[j] \in WhiteSpace
             last  == CHOOSE i \in 1..Len(s) :
                         /\ s[i] \notin WhiteSpace
                         /\ \A j \in (i + 1)..Len(s) : s[j] \in WhiteSpace
         IN  SubSeq(s, first, last)

\* String.prototype.includes / startsWith / endsWith
StartsWith(s, p) == Len(p) <= Len(s) /\ SubSeq(s, 1, Len(p)) = p
EndsWith(s, p) ==
    Len(p) <= Len(s) /\ SubSeq(s, Len(s) - Len(p) + 1, Len(s)) = p
Includes(s, p) ==
    \E i \in 1..(Len(s) - Len(p) + 1) : SubSeq(s, i, i + Len(p) - 1) = p

AllIn(s, set) == \A i \in 1..Len(s) : s[i] \in set

\* the value of a non-empty run of decimal digits
DigitsValue(s) ==
    LET value[i \in 0..Len(s)] ==
            IF i = 0 THEN 0 ELSE 10 * value[i - 1] + DigitVal(s[i])
    IN  value[Len(s)]

\* StrUnsignedDecimalLiteral restricted to integers: digits, optionally
\* followed by "." and zeros ("5", "5.", "5.0"); anything else is NaN.
UnsignedToNumber(s) ==
    IF s = <<"I", "n", "f", "i", "n", "i", "t", "y">> THEN PosInf
    ELSE IF \E d \in 1..Len(s) :
                /\ AllIn(SubSeq(s, 1, d), Digits)
                /\ \/ d = Len(s)
                   \/ /\ s[d + 1] = "."
                      /\ AllIn(SubSeq(s, d + 2, Len(s)), {"0"})
         THEN LET d == CHOOSE d \in 1..Len(s) :
                          /\ AllIn(SubSeq(s, 1, d), Digits)
                          /\ \/ d = Len(s)
                             \/ /\ s[d + 1] = "."
                                /\ AllIn(SubSeq(s, d + 2, Len(s)), {"0"})
              IN  Num(DigitsValue(SubSeq(s, 1, d)))
         ELSE NaN

Negate(v) ==
    CASE v.k = "fin"  -> Num(0 - v.n)
      [] v.k = "inf"  -> NegInf
      [] v.k = "ninf" -> PosInf
      [] v.k = "nan"  -> NaN

\* Number(<string>): StringToNumber
StringToNumber(s) ==
    LET u == Trim(s) IN
    IF u = <<>> THEN Num(0)
    ELSE IF Head(u) = "-" THEN Negate(UnsignedToNumber(Tail(u)))
    ELSE IF Head(u) = "+" THEN UnsignedToNumber(Tail(u))
    ELSE UnsignedToNumber(u)

\* Number(v)
ToNumber(v) ==
    CASE v.t = "undefined" -> NaN
      [] v.t = "null"      -> Num(0)
      [] v.t = "boolean"   -> IF v.b THEN Num(1) ELSE Num(0)
      [] v.t = "number"    -> v
      [] v.t = "string"    -> StringToNumber(v.s)

RECURSIVE NatToChars(_)
NatToChars(n) ==
    IF n < 10 THEN <<DigitChar(n)>>
    ELSE Const(n \div 10, LAMBDA q : NatToChars(q)) \o <<DigitChar(n % 10)>>

\* Number::toString
NumberToChars(v) ==
    CASE v.k = "nan"  -> <<"N", "a", "N">>
      [] v.k = "inf"  -> <<"I", "n", "f", "i", "n", "i", "t", "y">>
      [] v.k = "ninf" -> <<"-", "I", "n", "f", "i", "n", "i", "t", "y">>
      [] v.k = "fin"  -> IF v.n < 0 THEN <<"-">> \o NatToChars(0 - v.n)
                         ELSE NatToChars(v.n)

\* String(v), as a character sequence
ToChars(v) ==
    CASE v.t = "undefined" -> <<"u", "n", "d", "e", "f", "i", "n", "e", "d">>
      [] v.t = "null"      -> <<"n", "u", "l", "l">>
      [] v.t = "boolean"   -> IF v.b THEN <<"t", "r", "u", "e">>
                              ELSE <<"f", "a", "l", "s", "e">>
      [] v.t = "number"    -> NumberToChars(v)
      [] v.t = "string"    -> v.s

\* Boolean(v): the truthiness used by !x, x || y and if (x)
Truthy(v) ==
    CASE v.t = "undefined" -> FALSE
      [] v.t = "null"      -> FALSE
      [] v.t = "boolean"   -> v.b
      [] v.t = "number"    -> ~(v.k = "nan" \/ (v.k = "fin" /\ v.n = 0))
      [] v.t = "string"    -> v.s # <<>>

\* x === y on primitives
StrictEquals(x, y) ==
    IF x.t # y.t THEN FALSE
    ELSE IF x.t = "number" THEN x.k # "nan" /\ y.k # "nan" /\ x = y
    ELSE x = y

\* x == y on primitives (IsLooselyEqual)
LooseEquals(x, y) ==
    IF x.t = y.t THEN StrictEquals(x, y)
    ELSE IF IsNullish(x) /\ IsNullish(y) THEN TRUE
    ELSE IF IsNullish(x) \/ IsNullish(y) THEN FALSE
    ELSE StrictEquals(ToNumber(x), ToNumber(y))

\* x < y on numbers (false when either is NaN)
NumLess(x, y) ==
    /\ x.k # "nan" /\ y.k # "nan"
    /\ \/ x.k = "ninf" /\ y.k # "ninf"
       \/ x.k = "fin" /\ y.k = "inf"
       \/ x.k = "fin" /\ y.k = "fin" /\ x.n < y.n

NumLessEq(x, y) == NumLess(x, y) \/ StrictEquals(x, y)

\* x < y where x is a number and y any primitive: y is coerced with
\* ToNumber (the source never compares two strings with a relational
\* operator)
Less(x, y)      == NumLess(ToNumber(x), ToNumber(y))
LessEq(x, y)    == NumLessEq(ToNumber(x), ToNumber(y))
Greater(x, y)   == NumLess(ToNumber(y), ToNumber(x))
GreaterEq(x, y) == NumLessEq(ToNumber(y), ToNumber(x))

----------------------------------------------------------------------------
(* Regular expressions: new RegExp(source, flags) and RegExp.prototype.test *)
(* on the subset of the pattern language built from literal characters,    *)
(* ".", a postfix "*", and the assertions "^" and "$".  The pattern        *)
(* alphabet of the model also holds "(" and "[" but none of ")", "]",      *)
(* "\", "+", "?", "{", "|": an opening bracket is therefore always         *)
(* unterminated.                                                           *)

\* new RegExp(source) throws a SyntaxError: unterminated group or character
\* class, or a quantifier with nothing to repeat
RegExpSyntaxError(p) ==
    \E i \in 1..Len(p) :
        \/ p[i] = "("
        \/ p[i] = "["
        \/ p[i] = "*" /\ (i = 1 \/ p[i - 1] \in {"*", "^", "$"})

AtomMatches(a, c) == a = "." \/ a = c

\* the pattern p, read from its i-th character, matches a prefix of what
\* s holds from position pos
RECURSIVE MatchHere(_, _, _, _)
MatchHere(p, i, s, pos) ==
    IF i > Len(p) THEN TRUE
    ELSE IF i < Len(p) /\ p[i + 1] = "*"
    THEN \E k \in 0..(Len(s) - pos + 1) :
            /\ \A j \in 0..(k - 1) : AtomMatches(p[i], s[pos + j])
            /\ \E ni \in {i + 2} : \E npos \in {pos + k} :
                  MatchHere(p, ni, s, npos)
    ELSE IF p[i] = "^"
    THEN pos = 1 /\ \E ni \in {i + 1} : MatchHere(p, ni, s, pos)
    ELSE IF p[i] = "$"
    THEN pos = Len(s) + 1 /\ \E ni \in {i + 1} : MatchHere(p, ni, s, pos)
    ELSE /\ pos <= Len(s)
         /\ AtomMatches(p[i], s[pos])
         /\ \E ni \in {i + 1} : \E npos \in {pos + 1} :
               MatchHere(p, ni, s, npos)

LowerAll(s) == [i \in 1..Len(s) |-> LowerOf(s[i])]

\* regex.test(s) for a pattern that compiled; ignoreCase is the 'i' flag
RegExpTest(p, ignoreCase, s) ==
    \E pp \in {IF ignoreCase THEN LowerAll(p) ELSE p} :
    \E ss \in {IF ignoreCase THEN LowerAll(s) ELSE s} :
    \E start \in 1..(Len(s) + 1) : MatchHere(pp, 1, ss, start)

\* pattern.replace(/\*/g, '.*')
ReplaceStars(p) ==
    LET replaced[i \in 0..Len(p)] ==
            IF i = 0 THEN <<>>
            ELSE replaced[i - 1]
                 \o (IF p[i] = "*" THEN <<".", "*">> ELSE <<p[i]>>)
    IN  replaced[Len(p)]

----------------------------------------------------------------------------
(* Records (datasets): a sequence of own properties in key order.  Field   *)
(* names are not canonical array indices, so key order is insertion order. *)

Keys(dataset) == [i \in 1..Len(dataset) |-> dataset[i].name]

HasOwn(dataset, name) == \E i \in 1..Len(dataset) : dataset[i].name = name

\* dataset[field]
Get(dataset, name) ==
    IF HasOwn(dataset, name)
    THEN dataset[CHOOSE i \in 1..Len(dataset) : dataset[i].name = name].value
    ELSE Undefined

\* getFieldValue(field, dataset)
getFieldValue(field, dataset) == Get(dataset, field)

HasOwnPropertyName ==
    <<"h", "a", "s", "O", "w", "n", "P", "r", "o", "p", "e", "r", "t", "y">>

Return(v)  == [kind |-> "return", value |-> v]
Throw(e)   == [kind |-> "throw", error |-> e]

\* findMatchingFields(pattern, dataset): Return(<list of names>) or the
\* exception it raises
findMatchingFields(pattern, dataset) ==
    IF pattern = <<"*">> THEN Return(Keys(dataset))
    ELSE IF \E i \in 1..Len(pattern) : pattern[i] = "*"
    THEN Const(<<"^">> \o ReplaceStars(pattern) \o <<"$">>, LAMBDA source :
            IF RegExpSyntaxError(source) THEN Throw("SyntaxError")
            ELSE LET Test(field) == RegExpTest(source, TRUE, field)
                 IN  Return(SelectSeq(Keys(dataset), Test)))
    ELSE IF HasOwn(dataset, HasOwnPropertyName)
         \* the record's own "hasOwnProperty" value shadows the method
         THEN Throw("TypeError")
         ELSE IF HasOwn(dataset, pattern) THEN Return(<<pattern>>)
              ELSE Return(<<>>)

----------------------------------------------------------------------------
(* Rule definitions.  Identifiers the engine only copies or compares with  *)
(* === against literals (id, name, ruleType, severity, the configuration's *)
(* type, dataType, operators and business-rule name) are TLA+ strings, "" *)
(* standing for an absent (falsy) one; everything else is a JavaScript     *)
(* value, Undefined when the key is absent.                                *)

NoConfiguration ==
    [ pattern |-> Undefined, dataType |-> "",
      min |-> Undefined, max |-> Undefined, inclusive |-> Undefined,
      required |-> Undefined, notEmpty |-> Undefined, minLength |-> Undefined,
      scope |-> "",
      type |-> "",
      conditionField |-> Undefined, conditionValue |-> Undefined,
      conditionOperator |-> "", targetField |-> Undefined,
      targetCondition |-> Undefined,
      field1 |-> Undefined, field2 |-> Undefined,
      comparisonOperator |-> "", expectedSum |-> Undefined,
      dependentField |-> Undefined, requiredValue |-> Undefined,
      businessRule |-> "",
      condition |-> Undefined ]

NoTargetCondition ==
    [ type |-> "", pattern |-> Undefined, min |-> Undefined,
      max |-> Undefined, message |-> Undefined ]

Rule(id, ruleType, field, configuration) ==
    [ id |-> id, name |-> id, ruleType |-> ruleType,
      target |-> [field |-> field], configuration |-> configuration,
      severity |-> "", enabled |-> Undefined ]

\* a validator's value: { passed } or { passed, message }
Passed == [passed |-> TRUE, message |-> Undefined]
Outcome(passed, message) == [passed |-> passed, message |-> message]
Failed(message) == [passed |-> FALSE, message |-> message]

----------------------------------------------------------------------------
(* Format validator                                                        *)

EmailLocalChars  == Letters \cup Digits \cup {".", "_", "%", "+", "-"}
EmailDomainChars == Letters \cup Digits \cup {".", "-"}
PhoneSeparators  == {"-", ".", " "}

\* /^[a-zA-Z0-9._%+-]+@[a-zA-Z0-9.-]+\.[a-zA-Z]{2,}$/.test(s)
emailRegex(s) ==
    \E a \in 2..Len(s) : \E d \in (a + 2)..Len(s) :
        /\ s[a] = "@"
        /\ AllIn(SubSeq(s, 1, a - 1), EmailLocalChars)
        /\ AllIn(SubSeq(s, a + 1, d - 1), EmailDomainChars)
        /\ s[d] = "."
        /\ Len(s) - d >= 2
        /\ AllIn(SubSeq(s, d + 1, Len(s)), Letters)

\* /^\(?(\d{3})\)?[-.\s]?(\d{3})[-.\s]?(\d{4})$/.test(s)
phoneRegex(s) ==
    \E o \in 0..1 : \E c \in 0..1 : \E p \in 0..1 : \E q \in 0..1 :
        /\ Len(s) = 10 + o + c + p + q
        /\ o = 1 => s[1] = "("
        /\ AllIn(SubSeq(s, o + 1, o + 3), Digits)
        /\ c = 1 => s[o + 4] = ")"
        /\ p = 1 => s[o + c + 4] \in PhoneSeparators
        /\ AllIn(SubSeq(s, o + c + p + 4, o + c + p + 6), Digits)
        /\ q = 1 => s[o + c + p + 7] \in PhoneSeparators
        /\ AllIn(SubSeq(s, o + c + p + q + 7, o + c + p + q + 10), Digits)

SchemeChars == Letters \cup Digits \cup {"+", "-", "."}
HostChars   == Letters \cup Digits \cup {".", "-"}
SpecialSchemes ==
    { <<"h", "t", "t", "p">>, <<"h", "t", "t", "p", "s">>,
      <<"f", "t", "p">>, <<"w", "s">>, <<"w", "s", "s">> }

\* s without its leading "/" characters
SkipSlashes(s) ==
    LET n == Cardinality({i \in 1..Len(s) :
                            \A j \in 1..i : s[j] = "/"})
    IN  SubSeq(s, n + 1, Len(s))

\* the characters of s before the first "/", "?" or "#"
HostOf(s) ==
    LET n == Cardinality({i \in 1..Len(s) :
                            \A j \in 1..i : s[j] \notin {"/", "?", "#"}})
    IN  SubSeq(s, 1, n)

\* new URL(s) does not throw, for strings over letters, digits and
\* "+-.:/?#": an absolute URL needs a scheme, and a special scheme needs a
\* non-empty host
IsAbsoluteUrl(s) ==
    \E c \in 2..Len(s) :
        /\ s[c] = ":"
        /\ s[1] \in Letters
        /\ AllIn(SubSeq(s, 1, c - 1), SchemeChars)
        /\ LowerAll(SubSeq(s, 1, c - 1)) \in SpecialSchemes =>
              LET host == HostOf(SkipSlashes(SubSeq(s, c + 1, Len(s))))
              IN  host # <<>> /\ AllIn(host, HostChars)

LeapYear(y) == (y % 4 = 0 /\ y % 100 # 0) \/ y % 400 = 0

DaysInMonth(y, m) ==
    IF m = 2 THEN (IF LeapYear(y) THEN 29 ELSE 28)
    ELSE IF m \in {4, 6, 9, 11} THEN 30 ELSE 31

\* days from 0000-03-01 to the civil date y-m-d
DaysFromCivil(y, m, d) ==
    LET yy == IF m <= 2 THEN y - 1 ELSE y
        mm == IF m <= 2 THEN m + 9 ELSE m - 3
    IN  365 * yy + yy \div 4 - yy \div 100 + yy \div 400
        + (153 * mm + 2) \div 5 + d - 1

\* days from the epoch 1970-01-01 to the civil date y-m-d
DayNumber(y, m, d) == DaysFromCivil(y, m, d) - DaysFromCivil(1970, 1, 1)

\* new Date(s).getTime() for the ISO date form YYYY-MM-DD, counted in days
\* (the source only tests validity and orders or compares such values);
\* NaN for every other string over letters, "-", "@", "." and " ".  Strings
\* the engine's host parses with its implementation-defined fallback
\* (digits outside the ISO form) are kept out of date-sensitive inputs.
DateParse(s) ==
    IF /\ Len(s) = 10
       /\ s[5] = "-" /\ s[8] = "-"
       /\ AllIn(SubSeq(s, 1, 4), Digits)
       /\ AllIn(SubSeq(s, 6, 7), Digits)
       /\ AllIn(SubSeq(s, 9, 10), Digits)
    THEN LET y == DigitsValue(SubSeq(s, 1, 4))
             m == DigitsValue(SubSeq(s, 6, 7))
             d == DigitsValue(SubSeq(s, 9, 10))
         IN  IF m \in 1..12 /\ d \in 1..DaysInMonth(y, m)
             THEN Num(DayNumber(y, m, d))
             ELSE NaN
    ELSE NaN

\* checkDataType(value, dataType); value is already a string
checkDataType(value, dataType) ==
    CASE dataType = "email" ->
            Outcome(emailRegex(value),
                    Msg("Value '${value}' is not a valid email address",
                        <<Str(value)>>))
      [] dataType = "phone" ->
            Outcome(phoneRegex(value),
                    Msg("Value '${value}' is not a valid phone number",
                        <<Str(value)>>))
      [] dataType = "url" ->
            IF IsAbsoluteUrl(value) THEN Passed
            ELSE Failed(Msg("Value '${value}' is not a valid URL",
                            <<Str(value)>>))
      [] dataType = "number" ->
            Outcome(~IsNaNValue(StringToNumber(value)),
                    Msg("Value '${value}' is not a valid number",
                        <<Str(value)>>))
      [] dataType = "date" ->
            Outcome(~IsNaNValue(DateParse(value)),
                    Msg("Value '${value}' is not a valid date",
                        <<Str(value)>>))
      [] OTHER -> Passed

\* a faulty variant: the pattern is tested before the data type
validateFormat_patternFirst(rule, value) ==
    IF IsNullish(value) THEN Return(Passed)
    ELSE
    LET stringValue == ToChars(value)
        cfg == rule.configuration
        typeCheck == IF cfg.dataType # ""
                     THEN checkDataType(stringValue, cfg.dataType)
                     ELSE Passed
    IN  IF Truthy(cfg.pattern) /\ RegExpSyntaxError(ToChars(cfg.pattern))
        THEN Throw("SyntaxError")
        ELSE IF /\ Truthy(cfg.pattern)
                /\ ~RegExpTest(ToChars(cfg.pattern), FALSE, stringValue)
        THEN Return(Failed(Msg(
               "Value '${stringValue}' does not match required format pattern",
               <<Str(stringValue)>>)))
        ELSE Return(typeCheck)

\* validateFormat(rule, value)
validateFormat(rule, value) ==
    IF IsNullish(value) THEN Return(Passed)
    ELSE
    LET stringValue == ToChars(value)
        cfg == rule.configuration
        typeCheck == IF cfg.dataType # ""
                     THEN checkDataType(stringValue, cfg.dataType)
                     ELSE Passed
    IN  IF ~typeCheck.passed THEN Return(typeCheck)
        ELSE IF Truthy(cfg.pattern)
        THEN IF RegExpSyntaxError(ToChars(cfg.pattern))
             THEN Throw("SyntaxError")
             ELSE IF ~RegExpTest(ToChars(cfg.pattern), FALSE, stringValue)
             THEN Return(Failed(Msg(
                    "Value '${stringValue}' does not match required format pattern",
                    <<Str(stringValue)>>)))
             ELSE Return(Passed)
        ELSE Return(Passed)

----------------------------------------------------------------------------
(* Range, completeness and uniqueness validators                           *)

\* the text interpolated for ${inclusive ? '' : 'exclusive '}
LimitWord(inclusive) ==
    IF inclusive THEN Str(<<>>)
    ELSE Str(<<"e", "x", "c", "l", "u", "s", "i", "v", "e", " ">>)

\* inclusive ? numValue < min : numValue <= min
BelowMin(numValue, min, inclusive) ==
    IF inclusive THEN Less(numValue, min) ELSE LessEq(numValue, min)

\* inclusive ? numValue > max : numValue >= max
AboveMax(numValue, max, inclusive) ==
    IF inclusive THEN Greater(numValue, max) ELSE GreaterEq(numValue, max)

\* a faulty variant: only undefined is skipped, null is coerced to 0
validateRange_undefinedOnly(rule, value) ==
    IF value = Undefined THEN Passed
    ELSE
    LET numValue == ToNumber(value)
        min == rule.configuration.min
        max == rule.configuration.max
        inclusive == ~StrictEquals(rule.configuration.inclusive, Bool(FALSE))
    IN  IF IsNaNValue(numValue)
        THEN Failed(Msg(
               "Value '${value}' is not a valid number for range validation",
               <<value>>))
        ELSE IF min # Undefined /\ BelowMin(numValue, min, inclusive)
        THEN Failed(Msg(
               "Value ${numValue} is below minimum ${inclusive ? '' : 'exclusive '}limit of ${min}",
               <<numValue, LimitWord(inclusive), min>>))
        ELSE IF max # Undefined /\ AboveMax(numValue, max, inclusive)
        THEN Failed(Msg(
               "Value ${numValue} is above maximum ${inclusive ? '' : 'exclusive '}limit of ${max}",
               <<numValue, LimitWord(inclusive), max>>))
        ELSE Outcome(TRUE, Str(<<>>))

\* validateRange(rule, value)
validateRange(rule, value) ==
    IF IsNullish(value) THEN Passed
    ELSE
    LET numValue == ToNumber(value)
        min == rule.configuration.min
        max == rule.configuration.max
        inclusive == ~StrictEquals(rule.configuration.inclusive, Bool(FALSE))
    IN  IF IsNaNValue(numValue)
        THEN Failed(Msg(
               "Value '${value}' is not a valid number for range validation",
               <<value>>))
        ELSE IF min # Undefined /\ BelowMin(numValue, min, inclusive)
        THEN Failed(Msg(
               "Value ${numValue} is below minimum ${inclusive ? '' : 'exclusive '}limit of ${min}",
               <<numValue, LimitWord(inclusive), min>>))
        ELSE IF max # Undefined /\ AboveMax(numValue, max, inclusive)
        THEN Failed(Msg(
               "Value ${numValue} is above maximum ${inclusive ? '' : 'exclusive '}limit of ${max}",
               <<numValue, LimitWord(inclusive), max>>))
        ELSE Outcome(TRUE, Str(<<>>))

\* a faulty variant: the notEmpty check runs before the required check
validateCompleteness_notEmptyFirst(rule, value) ==
    LET cfg == rule.configuration IN
    IF /\ StrictEquals(cfg.notEmpty, Bool(TRUE))
       /\ (IsNullish(value) \/ Trim(ToChars(value)) = <<>>)
    THEN Failed(Msg("Field must not be empty", <<>>))
    ELSE IF StrictEquals(cfg.required, Bool(TRUE)) /\ IsNullish(value)
    THEN Failed(Msg("Required field is missing", <<>>))
    ELSE Passed

\* validateCompleteness(rule, value)
validateCompleteness(rule, value) ==
    LET cfg == rule.configuration IN
    IF StrictEquals(cfg.required, Bool(TRUE)) /\ IsNullish(value)
    THEN Failed(Msg("Required field is missing", <<>>))
    ELSE IF /\ StrictEquals(cfg.notEmpty, Bool(TRUE))
            /\ (IsNullish(value) \/ Trim(ToChars(value)) = <<>>)
    THEN Failed(Msg("Field must not be empty", <<>>))
    ELSE IF cfg.minLength # Undefined
    THEN IF IsNullish(value)
         THEN Passed
         ELSE LET stringValue == ToChars(value) IN
              IF Less(Num(Len(stringValue)), cfg.minLength)
              THEN Failed(Msg(
                     "Field length ${stringValue.length} is below minimum required length of ${rule.configuration.minLength}",
                     <<Num(Len(stringValue)), cfg.minLength>>))
              ELSE Passed
    ELSE Passed

\* a faulty variant: the occurrences are counted with ==
validateUniqueness_loose(rule, value, dataset) ==
    IF IsNullish(value) THEN Passed
    ELSE
    LET count == Cardinality({i \in 1..Len(dataset) :
                                LooseEquals(dataset[i].value, value)})
    IN  IF count > 1
        THEN Failed(Msg("Value '${value}' is not unique within the dataset",
                        <<value>>))
        ELSE Passed

\* validateUniqueness(rule, value, dataset)
validateUniqueness(rule, value, dataset) ==
    IF IsNullish(value) THEN Passed
    ELSE
    LET count == Cardinality({i \in 1..Len(dataset) :
                                StrictEquals(dataset[i].value, value)})
    IN  IF count > 1
        THEN Failed(Msg("Value '${value}' is not unique within the dataset",
                        <<value>>))
        ELSE Passed

\* validateCustom(rule, value, dataset)
validateCustom(rule, value, dataset) == Passed

----------------------------------------------------------------------------
(* Cross-field validators                                                  *)

\* dataset[key] for a key given as a JavaScript value
Lookup(dataset, key) == Get(dataset, ToChars(key))

\* x + y on numbers
NumAdd(x, y) ==
    IF x.k = "nan" \/ y.k = "nan" THEN NaN
    ELSE IF x.k = "fin" /\ y.k = "fin" THEN Num(x.n + y.n)
    ELSE IF x.k = "fin" THEN y
    ELSE IF y.k = "fin" THEN x
    ELSE IF x.k = y.k THEN x
    ELSE NaN

\* the index of the first occurrence of sep in s, 0 when there is none
IndexOf(s, sep) ==
    IF Includes(s, sep)
    THEN CHOOSE i \in 1..(Len(s) - Len(sep) + 1) :
            /\ SubSeq(s, i, i + Len(sep) - 1) = sep
            /\ \A j \in 1..(i - 1) : SubSeq(s, j, j + Len(sep) - 1) # sep
    ELSE 0

\* const [left, right] = expression.split(sep).map(s => s.trim()): right
SplitRight(expression, sep) ==
    LET i == IndexOf(expression, sep)
        rest == SubSeq(expression, i + Len(sep), Len(expression))
        j == IndexOf(rest, sep)
    IN  Trim(IF j = 0 THEN rest ELSE SubSeq(rest, 1, j - 1))

\* resolveValue(value, dataset); value is a string
resolveValue(value, dataset) ==
    IF StartsWith(value, <<"{">>) /\ EndsWith(value, <<"}">>)
    THEN Get(dataset, SubSeq(value, 2, Len(value) - 1))
    ELSE Str(value)

\* a faulty variant: > and < are looked for before >= and <=
evaluateExpression_shortFirst(expression, dependentValue, dataset) ==
    IF expression.t = "string"
    THEN LET e == expression.s
             R(sep) == resolveValue(SplitRight(e, sep), dataset)
         IN  IF Includes(e, <<"=", "=">>)
             THEN LooseEquals(dependentValue, R(<<"=", "=">>))
             ELSE IF Includes(e, <<"!", "=">>)
             THEN ~LooseEquals(dependentValue, R(<<"!", "=">>))
             ELSE IF Includes(e, <<">">>)
             THEN Greater(dependentValue, R(<<">">>))
             ELSE IF Includes(e, <<"<">>)
             THEN Less(dependentValue, R(<<"<">>))
             ELSE IF Includes(e, <<">", "=">>)
             THEN GreaterEq(dependentValue, R(<<">", "=">>))
             ELSE IF Includes(e, <<"<", "=">>)
             THEN LessEq(dependentValue, R(<<"<", "=">>))
             ELSE IF Includes(e, <<"i", "n", "c", "l", "u", "d", "e", "s">>)
             THEN Includes(ToChars(dependentValue), ToChars(R(<<"i", "n", "c", "l", "u", "d", "e", "s">>)))
             ELSE Truthy(expression)
    ELSE IF expression.t = "boolean" THEN expression.b
    ELSE Truthy(expression)

\* evaluateExpression(expression, dependentValue, dataset): a boolean
evaluateExpression(expression, dependentValue, dataset) ==
    IF expression.t = "string"
    THEN LET e == expression.s
             R(sep) == resolveValue(SplitRight(e, sep), dataset)
         IN  IF Includes(e, <<"=", "=">>)
             THEN LooseEquals(dependentValue, R(<<"=", "=">>))
             ELSE IF Includes(e, <<"!", "=">>)
             THEN ~LooseEquals(dependentValue, R(<<"!", "=">>))
             ELSE IF Includes(e, <<">", "=">>)
             THEN GreaterEq(dependentValue, R(<<">", "=">>))
             ELSE IF Includes(e, <<"<", "=">>)
             THEN LessEq(dependentValue, R(<<"<", "=">>))
             ELSE IF Includes(e, <<">">>)
             THEN Greater(dependentValue, R(<<">">>))
             ELSE IF Includes(e, <<"<">>)
             THEN Less(dependentValue, R(<<"<">>))
             ELSE IF Includes(e, <<"i", "n", "c", "l", "u", "d", "e", "s">>)
             THEN Includes(ToChars(dependentValue), ToChars(R(<<"i", "n", "c", "l", "u", "d", "e", "s">>)))
             ELSE Truthy(expression)
    ELSE IF expression.t = "boolean" THEN expression.b
    ELSE Truthy(expression)

\* a faulty variant: the condition is evaluated on the matched field's value
validateLegacyCrossField_ownValue(rule, value, dataset) ==
    LET dependentField == rule.configuration.dependentField
        condition == rule.configuration.condition
    IN  IF ~Truthy(dependentField) \/ ~Truthy(condition)
        THEN Passed
        ELSE [passed |-> evaluateExpression(condition, value, dataset),
              message |-> Undefined]

\* validateLegacyCrossField(rule, value, dataset); evaluateExpression raises
\* nothing on primitive operands, so the catch branch is never entered
validateLegacyCrossField(rule, value, dataset) ==
    LET dependentField == rule.configuration.dependentField
        condition == rule.configuration.condition
    IN  IF ~Truthy(dependentField) \/ ~Truthy(condition)
        THEN Passed
        ELSE LET dependentValue == Lookup(dataset, dependentField)
                 result == evaluateExpression(condition, dependentValue,
                                              dataset)
             IN  [passed |-> result, message |-> Undefined]

\* condition.message || <default>
MessageOr(condition, default) ==
    IF Truthy(condition.message) THEN condition.message ELSE default

\* a faulty variant: a required target may be the empty string
evaluateTargetCondition_nullOnly(value, condition) ==
    IF condition.type = "required" /\ IsNullish(value)
    THEN Return(Failed(MessageOr(condition,
            Msg("Field is required based on conditional rule", <<>>))))
    ELSE Return(Passed)

\* evaluateTargetCondition(value, condition)
evaluateTargetCondition(value, condition) ==
    IF condition.type = "required"
    THEN IF IsNullish(value) \/ StrictEquals(value, Str(<<>>))
         THEN Return(Failed(MessageOr(condition,
                 Msg("Field is required based on conditional rule", <<>>))))
         ELSE Return(Passed)
    ELSE IF condition.type = "format"
    THEN IF Truthy(condition.pattern)
         THEN IF RegExpSyntaxError(ToChars(condition.pattern))
              THEN Throw("SyntaxError")
              ELSE IF ~RegExpTest(ToChars(condition.pattern), FALSE,
                                  ToChars(value))
              THEN Return(Failed(MessageOr(condition,
                     Msg("Value does not match required format: ${condition.pattern}",
                         <<condition.pattern>>))))
              ELSE Return(Passed)
         ELSE Return(Passed)
    ELSE IF condition.type = "range"
    THEN LET numValue == ToNumber(value) IN
         IF IsNaNValue(numValue)
         THEN Return(Failed(MessageOr(condition,
                 Msg("Value must be a number", <<>>))))
         ELSE IF condition.min # Undefined /\ Less(numValue, condition.min)
         THEN Return(Failed(MessageOr(condition,
                 Msg("Value ${numValue} is below minimum ${condition.min}",
                     <<numValue, condition.min>>))))
         ELSE IF condition.max # Undefined /\ Greater(numValue, condition.max)
         THEN Return(Failed(MessageOr(condition,
                 Msg("Value ${numValue} is above maximum ${condition.max}",
                     <<numValue, condition.max>>))))
         ELSE Return(Passed)
    ELSE Return(Passed)

\* the switch on conditionOperator
conditionMet(conditionOperator, conditionFieldValue, conditionValue) ==
    CASE conditionOperator = "equals" ->
            LooseEquals(conditionFieldValue, conditionValue)
      [] conditionOperator = "notEquals" ->
            ~LooseEquals(conditionFieldValue, conditionValue)
      [] conditionOperator = "greaterThan" ->
            Greater(conditionFieldValue, conditionValue)
      [] conditionOperator = "lessThan" ->
            Less(conditionFieldValue, conditionValue)
      [] conditionOperator = "greaterThanOrEqual" ->
            GreaterEq(conditionFieldValue, conditionValue)
      [] conditionOperator = "lessThanOrEqual" ->
            LessEq(conditionFieldValue, conditionValue)
      [] conditionOperator = "contains" ->
            Includes(ToChars(conditionFieldValue), ToChars(conditionValue))
      [] conditionOperator = "startsWith" ->
            StartsWith(ToChars(conditionFieldValue), ToChars(conditionValue))
      [] conditionOperator = "endsWith" ->
            EndsWith(ToChars(conditionFieldValue), ToChars(conditionValue))
      [] OTHER ->
            LooseEquals(conditionFieldValue, conditionValue)

\* validateConditionalCrossField(rule, value, dataset)
validateConditionalCrossField(rule, value, dataset) ==
    LET cfg == rule.configuration
        conditionOperator == IF cfg.conditionOperator # ""
                             THEN cfg.conditionOperator ELSE "equals"
    IN  IF ~Truthy(cfg.conditionField) \/ ~Truthy(cfg.targetField)
        THEN Return(Passed)
        ELSE
        LET conditionFieldValue == Lookup(dataset, cfg.conditionField)
            targetFieldValue == Lookup(dataset, cfg.targetField)
        IN  IF /\ conditionMet(conditionOperator, conditionFieldValue,
                               cfg.conditionValue)
               /\ cfg.targetCondition # Undefined
            THEN LET targetValidation ==
                        evaluateTargetCondition(targetFieldValue,
                                                cfg.targetCondition)
                 IN  IF targetValidation.kind = "throw" THEN targetValidation
                     ELSE IF ~targetValidation.value.passed
                     THEN Return(Failed(Msg(
                            "Conditional validation failed: ${targetValidation.message}",
                            <<targetValidation.value.message>>)))
                     ELSE Return(Passed)
            ELSE Return(Passed)

\* isValidDate(value)
isValidDate(value) ==
    IF value.t # "string" THEN FALSE
    ELSE ~IsNaNValue(DateParse(value.s))

\* new Date(<string>): a Date object, known by its time value
DateOf(value) == [t |-> "date", time |-> DateParse(value.s)]

\* Number(v) for a primitive or a Date; also the ToPrimitive(number) of
\* the relational operators
NumberOf(v) == IF v.t = "date" THEN v.time ELSE ToNumber(v)

ConvertingOperators ==
    { "lessThan", "greaterThan", "lessThanOrEqual", "greaterThanOrEqual",
      "sumEquals", "sumLessThan", "sumGreaterThan" }

\* a faulty variant: the values are converted for every operator
comparisonOperands_always(comparisonOperator, raw1, raw2) ==
    IF isValidDate(raw1) /\ isValidDate(raw2)
    THEN <<DateOf(raw1), DateOf(raw2)>>
    ELSE <<ToNumber(raw1), ToNumber(raw2)>>

\* a faulty variant: the converting operators never compare as dates
comparisonOperands_numbers(comparisonOperator, raw1, raw2) ==
    IF comparisonOperator \in ConvertingOperators
    THEN <<ToNumber(raw1), ToNumber(raw2)>>
    ELSE <<raw1, raw2>>

\* the values compared, after the conversion of lines 497-509
comparisonOperands(comparisonOperator, raw1, raw2) ==
    IF comparisonOperator \in ConvertingOperators
    THEN IF isValidDate(raw1) /\ isValidDate(raw2)
         THEN <<DateOf(raw1), DateOf(raw2)>>
         ELSE <<ToNumber(raw1), ToNumber(raw2)>>
    ELSE <<raw1, raw2>>

\* the switch on comparisonOperator
comparisonResult(comparisonOperator, value1, value2, expectedSum) ==
    CASE comparisonOperator = "equals" -> LooseEquals(value1, value2)
      [] comparisonOperator = "notEquals" -> ~LooseEquals(value1, value2)
      [] comparisonOperator = "greaterThan" ->
            NumLess(NumberOf(value2), NumberOf(value1))
      [] comparisonOperator = "lessThan" ->
            NumLess(NumberOf(value1), NumberOf(value2))
      [] comparisonOperator = "greaterThanOrEqual" ->
            NumLessEq(NumberOf(value2), NumberOf(value1))
      [] comparisonOperator = "lessThanOrEqual" ->
            NumLessEq(NumberOf(value1), NumberOf(value2))
      [] comparisonOperator = "sumEquals" ->
            StrictEquals(NumAdd(NumberOf(value1), NumberOf(value2)),
                         ToNumber(expectedSum))
      [] comparisonOperator = "sumLessThan" ->
            NumLess(NumAdd(NumberOf(value1), NumberOf(value2)),
                    ToNumber(expectedSum))
      [] comparisonOperator = "sumGreaterThan" ->
            NumLess(ToNumber(expectedSum),
                    NumAdd(NumberOf(value1), NumberOf(value2)))
      [] OTHER -> LooseEquals(value1, value2)

\* validateComparisonCrossField(rule, value, dataset)
validateComparisonCrossField(rule, value, dataset) ==
    LET cfg == rule.configuration IN
    IF \/ ~Truthy(cfg.field1) \/ ~Truthy(cfg.field2)
       \/ cfg.comparisonOperator = ""
    THEN Passed
    ELSE
    LET operands == comparisonOperands(cfg.comparisonOperator,
                                       Lookup(dataset, cfg.field1),
                                       Lookup(dataset, cfg.field2))
    IN  IF ~comparisonResult(cfg.comparisonOperator, operands[1],
                             operands[2], cfg.expectedSum)
        THEN Failed(Msg(
               "Comparison validation failed: ${field1} ${comparisonOperator} ${field2} condition not met",
               <<cfg.field1, Tag(cfg.comparisonOperator), cfg.field2>>))
        ELSE Passed

\* a faulty variant: the dependent value is compared with ===
validateDependencyCrossField_strict(rule, value, dataset) ==
    LET cfg == rule.configuration IN
    IF ~Truthy(cfg.dependentField) \/ ~Truthy(cfg.targetField)
    THEN Passed
    ELSE
    LET dependentValue == Lookup(dataset, cfg.dependentField)
        targetValue == Lookup(dataset, cfg.targetField)
    IN  IF /\ StrictEquals(dependentValue, cfg.requiredValue)
           /\ (IsNullish(targetValue) \/ StrictEquals(targetValue, Str(<<>>)))
        THEN Failed(Msg(
               "When ${dependentField} is ${requiredValue}, ${targetField} is required",
               <<cfg.dependentField, cfg.requiredValue, cfg.targetField>>))
        ELSE Passed

\* validateDependencyCrossField(rule, value, dataset)
validateDependencyCrossField(rule, value, dataset) ==
    LET cfg == rule.configuration IN
    IF ~Truthy(cfg.dependentField) \/ ~Truthy(cfg.targetField)
    THEN Passed
    ELSE
    LET dependentValue == Lookup(dataset, cfg.dependentField)
        targetValue == Lookup(dataset, cfg.targetField)
    IN  IF /\ LooseEquals(dependentValue, cfg.requiredValue)
           /\ (IsNullish(targetValue) \/ StrictEquals(targetValue, Str(<<>>)))
        THEN Failed(Msg(
               "When ${dependentField} is ${requiredValue}, ${targetField} is required",
               <<cfg.dependentField, cfg.requiredValue, cfg.targetField>>))
        ELSE Passed

\* validateAgeVerificationRule(dataset)
validateAgeVerificationRule(dataset) ==
    LET age == Get(dataset, <<"a", "g", "e">>)
        idType == Get(dataset, <<"i", "d", "T", "y", "p", "e">>)
        verificationDocument == Get(dataset, <<"v", "e", "r", "i", "f", "i", "c", "a", "t", "i", "o", "n", "D", "o", "c", "u", "m", "e", "n", "t">>)
    IN  IF /\ GreaterEq(age, Num(18))
           /\ (~Truthy(idType) \/ ~Truthy(verificationDocument))
        THEN Failed(Msg(
               "For users 18 or older, ID type and verification document are required",
               <<>>))
        ELSE Passed

\* validateEmailOrPhoneRequiredRule(dataset)
validateEmailOrPhoneRequiredRule(dataset) ==
    LET email == Get(dataset, <<"e", "m", "a", "i", "l">>)
        phone == Get(dataset, <<"p", "h", "o", "n", "e">>)
    IN  IF /\ (~Truthy(email) \/ StrictEquals(email, Str(<<>>)))
           /\ (~Truthy(phone) \/ StrictEquals(phone, Str(<<>>)))
        THEN Failed(Msg("Either email or phone must be provided", <<>>))
        ELSE Passed

\* a faulty variant: the guardian email is looked at before the consent
validateMinorsConsentRule_emailFirst(dataset) ==
    LET age == Get(dataset, <<"a", "g", "e">>)
        guardianConsent == Get(dataset, <<"g", "u", "a", "r", "d", "i", "a", "n", "C", "o", "n", "s", "e", "n", "t">>)
        guardianEmail == Get(dataset, <<"g", "u", "a", "r", "d", "i", "a", "n", "E", "m", "a", "i", "l">>)
    IN  IF Less(age, Num(18))
        THEN IF ~Truthy(guardianEmail)
             THEN Failed(Msg(
                    "Guardian email is required for users under 18", <<>>))
             ELSE IF ~Truthy(guardianConsent)
             THEN Failed(Msg(
                    "Guardian consent is required for users under 18", <<>>))
             ELSE Passed
        ELSE Passed

\* validateMinorsConsentRule(dataset)
validateMinorsConsentRule(dataset) ==
    LET age == Get(dataset, <<"a", "g", "e">>)
        guardianConsent == Get(dataset, <<"g", "u", "a", "r", "d", "i", "a", "n", "C", "o", "n", "s", "e", "n", "t">>)
        guardianEmail == Get(dataset, <<"g", "u", "a", "r", "d", "i", "a", "n", "E", "m", "a", "i", "l">>)
    IN  IF Less(age, Num(18))
        THEN IF ~Truthy(guardianConsent)
             THEN Failed(Msg(
                    "Guardian consent is required for users under 18", <<>>))
             ELSE IF ~Truthy(guardianEmail)
             THEN Failed(Msg(
                    "Guardian email is required for users under 18", <<>>))
             ELSE Passed
        ELSE Passed

EmploymentStatuses ==
    { Str(<<"e", "m", "p", "l", "o", "y", "e", "d">>), Str(<<"s", "e", "l", "f", "-", "e", "m", "p", "l", "o", "y", "e", "d">>), Str(<<"r", "e", "t", "i", "r", "e", "d">>),
      Str(<<"u", "n", "e", "m", "p", "l", "o", "y", "e", "d">>), Str(<<"s", "t", "u", "d", "e", "n", "t">>) }

\* a faulty variant: the employment status is looked at before the
\* verification
validateSalaryVerificationRule_statusFirst(dataset) ==
    LET salary == Get(dataset, <<"s", "a", "l", "a", "r", "y">>)
        salaryVerification == Get(dataset, <<"s", "a", "l", "a", "r", "y", "V", "e", "r", "i", "f", "i", "c", "a", "t", "i", "o", "n">>)
        employmentStatus == Get(dataset, <<"e", "m", "p", "l", "o", "y", "m", "e", "n", "t", "S", "t", "a", "t", "u", "s">>)
    IN  IF /\ Greater(salary, Num(0))
           /\ \A e \in EmploymentStatuses :
                 ~StrictEquals(employmentStatus, e)
        THEN Failed(Msg(
               "Valid employment status must be provided when salary is specified",
               <<>>))
        ELSE IF Greater(salary, Num(100000)) /\ ~Truthy(salaryVerification)
        THEN Failed(Msg(
               "Salary verification is required for salaries above 100,000",
               <<>>))
        ELSE Passed

\* validateSalaryVerificationRule(dataset)
validateSalaryVerificationRule(dataset) ==
    LET salary == Get(dataset, <<"s", "a", "l", "a", "r", "y">>)
        salaryVerification == Get(dataset, <<"s", "a", "l", "a", "r", "y", "V", "e", "r", "i", "f", "i", "c", "a", "t", "i", "o", "n">>)
        employmentStatus == Get(dataset, <<"e", "m", "p", "l", "o", "y", "m", "e", "n", "t", "S", "t", "a", "t", "u", "s">>)
    IN  IF Greater(salary, Num(100000)) /\ ~Truthy(salaryVerification)
        THEN Failed(Msg(
               "Salary verification is required for salaries above 100,000",
               <<>>))
        ELSE IF /\ Greater(salary, Num(0))
                /\ \A e \in EmploymentStatuses :
                      ~StrictEquals(employmentStatus, e)
        THEN Failed(Msg(
               "Valid employment status must be provided when salary is specified",
               <<>>))
        ELSE Passed

\* validateBusinessRuleCrossField(rule, value, dataset)
validateBusinessRuleCrossField(rule, value, dataset) ==
    LET businessRule == rule.configuration.businessRule IN
    CASE businessRule = "" -> Passed
      [] businessRule = "age-verification" ->
            validateAgeVerificationRule(dataset)
      [] businessRule = "email-phone-required" ->
            validateEmailOrPhoneRequiredRule(dataset)
      [] businessRule = "minors-consent" ->
            validateMinorsConsentRule(dataset)
      [] businessRule = "salary-verification" ->
            validateSalaryVerificationRule(dataset)
      [] OTHER -> Passed

\* validateCrossField(rule, value, dataset); a RuleDefinition always
\* carries a configuration object
validateCrossField(rule, value, dataset) ==
    LET type == rule.configuration.type IN
    CASE type = "conditional" ->
            validateConditionalCrossField(rule, value, dataset)
      [] type = "comparison" ->
            Return(validateComparisonCrossField(rule, value, dataset))
      [] type = "dependency" ->
            Return(validateDependencyCrossField(rule, value, dataset))
      [] type = "businessRule" ->
            Return(validateBusinessRuleCrossField(rule, value, dataset))
      [] OTHER ->
            Return(validateLegacyCrossField(rule, value, dataset))

KnownRuleTypes ==
    {"format", "range", "completeness", "uniqueness", "crossField", "custom"}

\* a faulty variant: an unknown kind that would be let through
UnknownRuleType_passed(rule) == Passed

\* the default branch of executeRule's switch
UnknownRuleType(rule) ==
    Failed(Msg("Unknown rule type: ${rule.ruleType}", <<Tag(rule.ruleType)>>))

\* executeRule(rule, value, dataset): Return(<validation result>) or the
\* exception raised
executeRule(rule, value, dataset) ==
    CASE rule.ruleType = "format" -> validateFormat(rule, value)
      [] rule.ruleType = "range" -> Return(validateRange(rule, value))
      [] rule.ruleType = "completeness" ->
            Return(validateCompleteness(rule, value))
      [] rule.ruleType = "uniqueness" ->
            Return(validateUniqueness(rule, value, dataset))
      [] rule.ruleType = "crossField" ->
            validateCrossField(rule, value, dataset)
      [] rule.ruleType = "custom" ->
            Return(validateCustom(rule, value, dataset))
      [] OTHER -> Return(UnknownRuleType(rule))

----------------------------------------------------------------------------
(* The engine: loadRules, validate, applyRule                              *)

\* the object pushed at lines 53-61
ValidationResult(rule, field, fieldValue, validationResult) ==
    [ ruleId |-> rule.id,
      ruleName |-> rule.name,
      field |-> field,
      value |-> fieldValue,
      severity |-> IF rule.severity # "" THEN rule.severity ELSE "error",
      message |-> validationResult.message,
      passed |-> validationResult.passed ]

\* a faulty variant: this.results.unshift(r)
PushResult_front(list, r) == <<r>> \o list

\* this.results.push(r)
PushResult(list, r) == Append(list, r)

\* the loop of applyRule over the matching fields: the list this.results
\* ends with, and whether an exception ended the loop
RECURSIVE applyToFields(_, _, _, _)
applyToFields(rule, dataset, fields, list) ==
    IF fields = <<>> THEN [kind |-> "return", results |-> list]
    ELSE
    Const(Head(fields), LAMBDA field :
    Const(getFieldValue(field, dataset), LAMBDA fieldValue :
    Const(executeRule(rule, fieldValue, dataset), LAMBDA validationResult :
        IF validationResult.kind = "throw"
        THEN [kind |-> "throw", error |-> validationResult.error,
              results |-> list]
        ELSE
        Const(PushResult(list, ValidationResult(rule, field, fieldValue,
                                                validationResult.value)),
              LAMBDA pushed :
        Const(Tail(fields), LAMBDA rest :
            applyToFields(rule, dataset, rest, pushed))))))

\* applyRule(rule, dataset), started with this.results = list
applyRule(rule, dataset, list) ==
    Const(findMatchingFields(rule.target.field, dataset),
          LAMBDA matchingFields :
        IF matchingFields.kind = "throw"
        THEN [kind |-> "throw", error |-> matchingFields.error,
              results |-> list]
        ELSE applyToFields(rule, dataset, matchingFields.value, list))

\* a faulty variant: the enabled flag is not looked at
IsEnabled_always(rule) == TRUE

\* rule.enabled !== false
IsEnabled(rule) == ~StrictEquals(rule.enabled, Bool(FALSE))

\* the loop of validate over this.rules
RECURSIVE validateLoop(_, _, _)
validateLoop(ruleList, dataset, list) ==
    IF ruleList = <<>> THEN [kind |-> "return", results |-> list]
    ELSE
    Const(Head(ruleList), LAMBDA rule :
    Const(Tail(ruleList), LAMBDA rest :
        IF IsEnabled(rule)
        THEN Const(applyRule(rule, dataset, list), LAMBDA applied :
                 IF applied.kind = "throw" THEN applied
                 ELSE Const(applied.results, LAMBDA pushed :
                          validateLoop(rest, dataset, pushed)))
        ELSE validateLoop(rest, dataset, list)))

\* a faulty variant: validate without the reset of this.results
FreshResults_kept(old) == old

\* this.results = [] at the start of validate; old is the previous list
FreshResults(old) == <<>>

\* validate(dataset) on an engine whose this.rules holds ruleList and whose
\* this.results holds old
validate(ruleList, dataset, old) ==
    Const(FreshResults(old), LAMBDA fresh :
        validateLoop(ruleList, dataset, fresh))

\* a faulty variant: only the first load takes effect
loadRules_first(current, given) ==
    IF current = "engine0" THEN given ELSE current

\* loadRules(rules): the reference this.rules holds afterwards
loadRules(current, given) == given

----------------------------------------------------------------------------
(* Inputs of the engine life-cycle specification                           *)

Field(name, value) == [name |-> name, value |-> value]

\* the rules of test-direct.js, a rule of an unknown kind and a disabled
\* rule
RequiredField ==
    Rule("required-field", "completeness", <<"*">>,
         [NoConfiguration EXCEPT !.required = Bool(TRUE),
                                 !.notEmpty = Bool(TRUE)])
AgeRange ==
    [Rule("age-range", "range", <<"*", "a", "g", "e", "*">>,
          [NoConfiguration EXCEPT !.min = Num(0), !.max = Num(150)])
       EXCEPT !.enabled = Bool(TRUE), !.severity = "warning"]
UnknownKind ==
    Rule("unknown-kind", "bogus", <<"n", "a", "m", "e">>, NoConfiguration)
DisabledRange ==
    [Rule("disabled-range", "range", <<"*">>,
          [NoConfiguration EXCEPT !.min = Num(0)])
       EXCEPT !.enabled = Bool(FALSE)]

CoreRules == {RequiredField, AgeRange, UnknownKind, DisabledRange}

validData ==
    << Field(<<"n", "a", "m", "e">>, Str(<<"J", "o">>)),
       Field(<<"e", "m", "a", "i", "l">>, Str(<<"a", "@", "b", ".", "c", "o">>)),
       Field(<<"a", "g", "e">>, Num(30)) >>
invalidData ==
    << Field(<<"n", "a", "m", "e">>, Str(<<>>)), Field(<<"a", "g", "e">>, Num(200)) >>
mixedData ==
    << Field(<<"A", "g", "e">>, Str(<<"a", "b", "c">>)), Field(<<"n", "a", "m", "e">>, Null) >>

CoreRecords == {validData, invalidData, mixedData}

\* the arrays of the program: the one the constructor creates and two the
\* caller owns
Refs == {"engine0", "a", "b"}
CallerRefs == {"a", "b"}

MaxPushes == 3

IdsOf(ruleList) == {ruleList[i].id : i \in 1..Len(ruleList)}

----------------------------------------------------------------------------
(* The engine and its caller as a state machine                            *)

NoReturn == [kind |-> "none"]

\* the caller holds no result list
NoList == [holds |-> FALSE, same |-> FALSE, snapshot |-> <<>>, now |-> <<>>]

\* no HTTP server is running
NoServer ==
    [file |-> [rules |-> <<>>, parsable |-> FALSE], writers |-> {},
     acked |-> {}, requests |-> <<>>]

\* new ValidationEngine(): this.rules = [], this.results = []
NewEngine ==
    /\ rules = "engine0"
    /\ results = <<>>
    /\ ret = NoReturn
    /\ op = "new"
    /\ arg = <<>>
    /\ loaded = [ref |-> "engine0", snapshot |-> <<>>, previous |-> "engine0"]
    /\ iterated = <<>>
    /\ repeat = FALSE

\* an engine used directly by its caller, as in test-direct.js
InitEngine ==
    /\ NewEngine
    /\ caller = NoList
    /\ server = NoServer

Init ==
    /\ heap = [r \in Refs |-> <<>>]
    /\ InitEngine

\* testRules.push(rule): the caller appends to an array it owns
CallerPush(ref, rule) ==
    /\ Len(heap["a"]) + Len(heap["b"]) < MaxPushes
    /\ rule.id \notin IdsOf(heap[ref])
    /\ heap' = [heap EXCEPT ![ref] = Append(@, rule)]
    /\ op' = "push"
    /\ arg' = ref
    /\ repeat' = FALSE
    /\ UNCHANGED <<rules, results, ret, loaded, iterated, caller, server>>

\* engine.loadRules(<the array ref>)
LoadRules(ref) ==
    /\ rules' = loadRules(rules, ref)
    /\ loaded' = [ref |-> ref, snapshot |-> heap[ref],
                  previous |-> loaded.ref]
    /\ op' = "loadRules"
    /\ arg' = ref
    /\ repeat' = FALSE
    /\ UNCHANGED <<heap, results, ret, iterated, caller, server>>

\* a faulty variant: this.results.length = 0 empties the array in place
ResultsArray_cleared(current, fresh) == current

\* this.results = []: the array that validate fills and returns is a new
\* one, not the one this.results named before
ResultsArray(current, fresh) == fresh

\* the list the caller kept, after a validate call that ends with the list
\* filled: it is touched only if it is the array that validate fills
KeptList(kept, filled) ==
    IF kept.holds /\ kept.same
    THEN IF ResultsArray("kept", "fresh") = "kept"
         THEN [kept EXCEPT !.now = filled]
         ELSE [kept EXCEPT !.same = FALSE]
    ELSE kept

\* results = engine.validate(dataset)
Validate(dataset) ==
    \E outcome \in {validate(heap[rules], dataset, results)} :
    /\ results' = outcome.results
    /\ ret' = IF outcome.kind = "throw"
              THEN [kind |-> "throw", error |-> outcome.error]
              ELSE [kind |-> "return", value |-> outcome.results]
    /\ iterated' = heap[rules]
    /\ op' = "validate"
    /\ arg' = dataset
    /\ repeat' = (op = "validate" /\ arg = dataset)
    /\ caller' = KeptList(caller, outcome.results)
    /\ UNCHANGED <<heap, rules, loaded, server>>

Next ==
    \/ \E ref \in CallerRefs : \E rule \in CoreRules : CallerPush(ref, rule)
    \/ \E ref \in CallerRefs : LoadRules(ref)
    \/ \E dataset \in CoreRecords : Validate(dataset)

Spec == Init /\ [][Next]_vars

----------------------------------------------------------------------------
(* Properties of the engine life cycle                                     *)

\* the position in ruleList of the rule with the given id
RuleIndex(ruleList, id) ==
    CHOOSE k \in 1..Len(ruleList) : ruleList[k].id = id

\* the position of x in the sequence seq
PositionIn(seq, x) == CHOOSE k \in 1..Len(seq) : seq[k] = x

ResultsOf(list, id) == SelectSeq(list, LAMBDA r : r.ruleId = id)

\* C1: two validate calls in a row on the same record, with no loadRules
\* call and no change of the rules in between, give their callers the same
\* outcome: the same ordered list, element by element
C1_ValidateIdempotent ==
    [][(op = "validate" /\ op' = "validate" /\ arg' = arg) => ret' = ret]_vars

C1_Witness ==
    /\ repeat
    /\ ret.kind = "return"
    /\ Len(ret.value) >= 2
    /\ \E i \in 1..Len(ret.value) : ~ret.value[i].passed

\* C2: validate never raises: every call returns a list
C2_ValidateNeverRaises ==
    op = "validate" => ret.kind = "return"

\* C3: the rules a validate call iterates are exactly those the array held
\* when it was passed to loadRules
C3_RulesChangeOnlyByLoad ==
    op = "validate" => iterated = loaded.snapshot

\* C4: every result carries the ruleId of a rule of the array passed to the
\* last loadRules call; a rule that is only in an array loaded earlier
\* contributes nothing
C4_LoadReplacesWholesale ==
    op = "validate" =>
        \A i \in 1..Len(results) :
            results[i].ruleId \in IdsOf(heap[loaded.ref])

C4_Witness ==
    /\ op = "validate"
    /\ loaded.ref = "b"
    /\ loaded.previous = "a"
    /\ IdsOf(heap["a"]) \ IdsOf(heap["b"]) # {}
    /\ ret.kind = "return"
    /\ ret.value # <<>>

\* C6: no result carries the ruleId of a rule whose enabled is false, and
\* a rule whose enabled is absent or true is applied to every field its
\* target matches
C6_DisabledRulesSkipped ==
    op = "validate" =>
        /\ \A i \in 1..Len(results) :
              iterated[RuleIndex(iterated, results[i].ruleId)].enabled
                  # Bool(FALSE)
        /\ ret.kind = "return" =>
              \A k \in 1..Len(iterated) :
                 iterated[k].enabled \in {Undefined, Bool(TRUE)} =>
                    LET matched ==
                          findMatchingFields(iterated[k].target.field, arg)
                    IN  Len(ResultsOf(ret.value, iterated[k].id))
                           = Len(matched.value)

C6_Witness ==
    /\ op = "validate"
    /\ ret.kind = "return"
    /\ \E k \in 1..Len(iterated) : iterated[k].enabled = Bool(FALSE)
    /\ \E i \in 1..Len(ret.value) :
          iterated[RuleIndex(iterated, ret.value[i].ruleId)].enabled
              = Undefined
    /\ \E i \in 1..Len(ret.value) :
          iterated[RuleIndex(iterated, ret.value[i].ruleId)].enabled
              = Bool(TRUE)

\* C7: the list is ordered by rule load order and, within one rule, by the
\* order in which the resolver yielded the matching fields
C7_ResultOrder ==
    op = "validate" =>
        \A i \in 1..Len(results) : \A j \in 1..Len(results) :
            i < j =>
              LET ri == RuleIndex(iterated, results[i].ruleId)
                  rj == RuleIndex(iterated, results[j].ruleId)
                  matched ==
                      findMatchingFields(iterated[ri].target.field, arg).value
              IN  \/ ri < rj
                  \/ /\ ri = rj
                     /\ PositionIn(matched, results[i].field)
                           < PositionIn(matched, results[j].field)

C7_Witness ==
    /\ op = "validate"
    /\ ret.kind = "return"
    /\ \E i \in 1..Len(ret.value) : \E j \in 1..Len(ret.value) :
          /\ i + 1 < j
          /\ ret.value[i].ruleId = ret.value[i + 1].ruleId
          /\ ret.value[i].ruleId # ret.value[j].ruleId
          /\ ret.value[i].passed
          /\ ~ret.value[i + 1].passed

IsUnknownKind(rule) == rule.ruleType \notin KnownRuleTypes

\* C8: a rule of an unknown kind yields, for each field its target matches,
\* a failed result with the message "Unknown rule type: <ruleType>", and
\* the other rules are evaluated as they are without it
C8_UnknownRuleType ==
    op = "validate" =>
        LET KindOf(r) == iterated[RuleIndex(iterated, r.ruleId)]
            others == SelectSeq(iterated, LAMBDA rule : ~IsUnknownKind(rule))
            without == validate(others, arg, <<>>)
        IN  /\ \A i \in 1..Len(results) :
                  IsUnknownKind(KindOf(results[i])) =>
                     /\ results[i].passed = FALSE
                     /\ results[i].message =
                           Msg("Unknown rule type: ${rule.ruleType}",
                               <<Tag(KindOf(results[i]).ruleType)>>)
            /\ without.kind = ret.kind
            /\ without.results =
                  SelectSeq(results, LAMBDA r : ~IsUnknownKind(KindOf(r)))
            /\ ret.kind = "return" =>
                  \A k \in 1..Len(iterated) :
                     (IsUnknownKind(iterated[k])
                        /\ iterated[k].enabled # Bool(FALSE)) =>
                        Len(ResultsOf(ret.value, iterated[k].id))
                           = Len(findMatchingFields(iterated[k].target.field,
                                                    arg).value)

C8_Witness ==
    /\ op = "validate"
    /\ ret.kind = "return"
    /\ \E i \in 1..Len(ret.value) : \E j \in 1..Len(ret.value) :
          /\ i < j
          /\ ret.value[i].ruleId = "unknown-kind"
          /\ ret.value[i].passed = FALSE
          /\ ret.value[j].ruleId # "unknown-kind"

----------------------------------------------------------------------------
(* One rule of each kind and sub-mode, loaded alone                        *)

Star == <<"*">>

\* range rules: min and max given or not, inclusive absent or false
RangeRules ==
    { Rule("range", "range", Star,
           [NoConfiguration EXCEPT !.min = mn, !.max = mx, !.inclusive = inc]) :
        mn \in {Undefined, Num(0)}, mx \in {Undefined, Num(150)},
        inc \in {Undefined, Bool(FALSE)} }

\* format rules: a built-in data type, a pattern, or both; "(" is not a
\* regular expression
FormatRules ==
    { Rule("format", "format", Star,
           [NoConfiguration EXCEPT !.dataType = dt, !.pattern = pat]) :
        dt \in {"", "email", "phone", "url", "number"},
        pat \in {Undefined, Str(<<"a", ".", "*">>), Str(<<"(">>)} }

\* new Date(<string>) is modelled for ISO dates and for text without
\* digits: the date rule targets the field that holds such values
DateFormat ==
    Rule("format-date", "format", <<"d">>,
         [NoConfiguration EXCEPT !.dataType = "date"])

BrokenFormat ==
    Rule("broken-format", "format", <<"*", "e", "m", "a", "i", "l", "*">>,
         [NoConfiguration EXCEPT !.pattern = Str(<<"(">>)])

\* a wildcard target that is not a regular expression once "*" is ".*"
BrokenTarget ==
    Rule("broken-target", "completeness", <<"*", "(">>,
         [NoConfiguration EXCEPT !.required = Bool(TRUE)])

CompletenessRules ==
    { Rule("completeness", "completeness", Star,
           [NoConfiguration EXCEPT !.required = req, !.notEmpty = ne,
                                   !.minLength = ml]) :
        req \in {Undefined, Bool(TRUE)}, ne \in {Undefined, Bool(TRUE)},
        ml \in {Undefined, Num(3)} }

UniqueValue == Rule("uniqueness", "uniqueness", Star, NoConfiguration)

\* uniqueness rules with each scope, and with none
UniquenessRules ==
    { Rule("uniqueness", "uniqueness", Star,
           [NoConfiguration EXCEPT !.scope = s]) :
        s \in {"", "collection", "dataset"} }

CustomRule == Rule("custom", "custom", Star, NoConfiguration)

UnknownStar == Rule("unknown-star", "bogus", Star, NoConfiguration)

\* crossField rules without configuration.type: dependentField + condition
LegacyRules ==
    { Rule("legacy", "crossField", Star,
           [NoConfiguration EXCEPT !.dependentField = Str(<<"a">>),
                                   !.condition = c]) :
        c \in { Str(<<"=", "=", " ", "5">>), Str(<<"!", "=", " ", "5">>), Str(<<">", "=", " ", "{", "b", "}">>), Str(<<"<", " ", "7">>),
                Str(<<"i", "n", "c", "l", "u", "d", "e", "s", " ", "x">>), Bool(FALSE), Undefined,
                Str(<<"a", "b", "c">>), Str(<<"a", " ", "=", " ", "5">>), Str(<<"<", "=", " ", "5">>), Str(<<">", " ", "4">>),
                Str(<<">", " ", "4", " ", "=", "=", " ", "5">>), Str(<<"!", "=", " ", "{", "b", "}">>) } }

TargetConditions ==
    { [NoTargetCondition EXCEPT !.type = "required"],
      [NoTargetCondition EXCEPT !.type = "required",
                                !.message = Str(<<"b", " ", "i", "s", " ", "n", "e", "e", "d", "e", "d">>)],
      [NoTargetCondition EXCEPT !.type = "format", !.pattern = Str(<<"a", ".", "*">>)],
      [NoTargetCondition EXCEPT !.type = "format", !.pattern = Str(<<"(">>)],
      [NoTargetCondition EXCEPT !.type = "range", !.min = Num(0),
                                !.max = Num(6)] }

ConditionalRules ==
    { Rule("conditional", "crossField", Star,
           [NoConfiguration EXCEPT !.type = "conditional",
                                   !.conditionField = Str(<<"a">>),
                                   !.conditionValue = Num(5),
                                   !.conditionOperator = o,
                                   !.targetField = Str(<<"b">>),
                                   !.targetCondition = tc]) :
        o \in {"", "greaterThanOrEqual", "notEquals"},
        tc \in TargetConditions }

\* conditional rules in which pieces of the configuration are left out
IncompleteConditionalRules ==
    { Rule("conditional", "crossField", Star,
           [NoConfiguration EXCEPT !.type = "conditional",
                                   !.conditionField = cf,
                                   !.conditionValue = cv,
                                   !.conditionOperator = o,
                                   !.targetField = tf,
                                   !.targetCondition = tc]) :
        cf \in {Undefined, Str(<<"a">>)}, cv \in {Undefined, Num(5)},
        o \in {"", "notEquals"}, tf \in {Undefined, Str(<<"b">>)},
        tc \in {Undefined, [NoTargetCondition EXCEPT !.type = "required"]} }

ComparisonRules ==
    { Rule("comparison", "crossField", Star,
           [NoConfiguration EXCEPT !.type = "comparison",
                                   !.field1 = Str(<<"a">>),
                                   !.field2 = Str(<<"b">>),
                                   !.comparisonOperator = o,
                                   !.expectedSum = Num(12)]) :
        o \in {"equals", "notEquals", "lessThan", "greaterThanOrEqual",
               "sumEquals", "sumGreaterThan", "greaterThan",
               "lessThanOrEqual", "sumLessThan"} }

DependencyRule ==
    Rule("dependency", "crossField", Star,
         [NoConfiguration EXCEPT !.type = "dependency",
                                 !.dependentField = Str(<<"a">>),
                                 !.requiredValue = Num(5),
                                 !.targetField = Str(<<"b">>)])

\* dependency rules with each piece present or missing
DependencyRules ==
    { Rule("dependency", "crossField", Star,
           [NoConfiguration EXCEPT !.type = "dependency",
                                   !.dependentField = df,
                                   !.requiredValue = rv,
                                   !.targetField = tf]) :
        df \in {Undefined, Str(<<"a">>)}, rv \in {Undefined, Num(5), Str(<<"5">>)},
        tf \in {Undefined, Str(<<"b">>)} }

BusinessRules ==
    { Rule("business", "crossField", Star,
           [NoConfiguration EXCEPT !.type = "businessRule",
                                   !.businessRule = b]) :
        b \in {"age-verification", "email-phone-required", "minors-consent",
               "salary-verification", "no-such-rule"} }

AllRules ==
    RangeRules \cup FormatRules \cup CompletenessRules \cup LegacyRules
      \cup ConditionalRules \cup ComparisonRules \cup BusinessRules
      \cup IncompleteConditionalRules \cup DependencyRules
      \cup UniquenessRules
      \cup { DateFormat, BrokenFormat, BrokenTarget, UniqueValue, CustomRule,
             UnknownStar, DependencyRule }

\* the values a single field takes
FieldValues ==
    { Num(150), Num(151), Num(-1), Num(0), Num(149), Num(1),
      Str(<<"a", "b", "c">>), Str(<<"1", "5", "0">>), Str(<<" ", "7", " ">>), Str(<<>>), Str(<<"-", "1">>),
      PosInf, NegInf, NaN, Str(<<"I", "n", "f", "i", "n", "i", "t", "y">>), Bool(TRUE), Null, Undefined,
      Str(<<" ", " ">>) }

SingleFieldRecords == { << Field(<<"v">>, x) >> : x \in FieldValues }

OtherRecords ==
    { <<>>, validData, invalidData, mixedData,
      << Field(<<"a">>, Num(5)), Field(<<"b">>, Null) >>,
      << Field(<<"a">>, Num(5)), Field(<<"b">>, Num(7)) >>,
      << Field(<<"a">>, Num(7)), Field(<<"b">>, Num(5)) >>,
      << Field(<<"a">>, Str(<<"x", "5">>)), Field(<<"b">>, Str(<<>>)) >>,
      << Field(<<"a">>, Num(5)), Field(<<"b">>, Str(<<"a", "b", "c">>)), Field(<<"c">>, Num(5)) >>,
      << Field(<<"a">>, Str(<<"2", "0", "2", "4", "-", "0", "3", "-", "0", "1">>)), Field(<<"b">>, Str(<<"2", "0", "2", "4", "-", "0", "2", "-", "2", "9">>)) >>,
      << Field(<<"a">>, Str(<<"2", "0", "2", "3", "-", "0", "1", "-", "0", "1">>)), Field(<<"b">>, Str(<<"2", "0", "2", "3", "-", "1", "2", "-", "3", "1">>)) >>,
      << Field(<<"a">>, Str(<<"2", "0", "2", "3", "-", "1", "2", "-", "3", "1">>)), Field(<<"b">>, Str(<<"2", "0", "2", "3", "-", "0", "1", "-", "0", "1">>)) >>,
      << Field(<<"a">>, Str(<<"2", "0", "2", "3", "-", "1", "2", "-", "3", "1">>)), Field(<<"b">>, Str(<<"2", "0", "2", "3", "-", "1", "2", "-", "3", "1">>)) >>,
      << Field(<<"d">>, Str(<<"2", "0", "2", "4", "-", "0", "1", "-", "1", "5">>)) >>,
      << Field(<<"d">>, Str(<<"a", "b", "c">>)) >>,
      << Field(<<"a", "g", "e">>, Num(20)), Field(<<"e", "m", "a", "i", "l">>, Str(<<>>)),
         Field(<<"s", "a", "l", "a", "r", "y">>, Num(200000)) >>,
      << Field(<<"a", "g", "e">>, Num(16)), Field(<<"g", "u", "a", "r", "d", "i", "a", "n", "C", "o", "n", "s", "e", "n", "t">>, Bool(TRUE)),
         Field(<<"p", "h", "o", "n", "e">>, Str(<<"5", "5", "5", "-", "1", "2", "3", "-", "4", "5", "6", "7">>)), Field(<<"s", "a", "l", "a", "r", "y">>, Num(10)),
         Field(<<"e", "m", "p", "l", "o", "y", "m", "e", "n", "t", "S", "t", "a", "t", "u", "s">>, Str(<<"s", "t", "u", "d", "e", "n", "t">>)) >> }

\* an object literal in which a key with value undefined is left out
Object3(name1, value1, name2, value2, name3, value3) ==
    SelectSeq(<< Field(name1, value1), Field(name2, value2),
                 Field(name3, value3) >>,
              LAMBDA f : f.value # Undefined)

\* records around the age of 18 with and without the guardian fields
GuardianRecords ==
    { Object3(<<"a", "g", "e">>, age, <<"g", "u", "a", "r", "d", "i", "a", "n", "C", "o", "n", "s", "e", "n", "t">>, consent, <<"g", "u", "a", "r", "d", "i", "a", "n", "E", "m", "a", "i", "l">>, email) :
        age \in {Undefined, Num(0), Num(15), Num(17), Num(18), Num(25)},
        consent \in {Undefined, Bool(FALSE), Bool(TRUE)},
        email \in {Undefined, Str(<<>>), Str(<<"p", "@", "x", ".", "i", "o">>)} }

AllRecords == SingleFieldRecords \cup OtherRecords

\* a caller that holds one rule in its array
InitRule ==
    /\ \E rule \in AllRules :
          heap = [r \in Refs |-> IF r = "a" THEN <<rule>> ELSE <<>>]
    /\ InitEngine

NextRule ==
    \/ LoadRules("a")
    \/ \E dataset \in AllRecords : Validate(dataset)

SpecRule == InitRule /\ [][NextRule]_vars

\* records around the salary limits, with and without the verification
\* and with employment statuses in and out of the enumeration
SalaryRecords ==
    { Object3(<<"s", "a", "l", "a", "r", "y">>, salary, <<"s", "a", "l", "a", "r", "y", "V", "e", "r", "i", "f", "i", "c", "a", "t", "i", "o", "n">>, verification,
              <<"e", "m", "p", "l", "o", "y", "m", "e", "n", "t", "S", "t", "a", "t", "u", "s">>, status) :
        salary \in {Undefined, Num(-5), Num(0), Num(1), Num(50000),
                    Num(100000), Num(100001), Num(150000)},
        verification \in {Undefined, Str(<<>>), Str(<<"v", "e", "r", "i", "f", "i", "e", "d">>)},
        status \in {Undefined, Str(<<"i", "n", "t", "e", "r", "n">>), Str(<<"E", "m", "p", "l", "o", "y", "e", "d">>)}
                     \cup EmploymentStatuses }

\* records for the rules over the fields a and b: a around the configured
\* value 5, b empty in each way and not empty
ConditionRecords ==
    { Object3(<<"a">>, a, <<"b">>, b, <<"c">>, Num(1)) :
        a \in {Undefined, Null, Num(4), Num(5), Num(25), Str(<<"5">>)},
        b \in {Undefined, Null, Str(<<>>), Str(<<"v", "e", "r", "i", "f", "i", "e", "d">>), Num(0),
               Bool(FALSE)} }

\* the values of the two compared fields: numbers, text that is no
\* number, text that coerces to 0, ISO dates, null and absent
ComparedValues ==
    { Undefined, Null, Num(0), Num(5), Num(7), Str(<<>>), Str(<<" ", " ">>),
      Str(<<"a", "b", "c">>), Str(<<"2", "0", "2", "3", "-", "0", "1", "-", "0", "1">>), Str(<<"2", "0", "2", "3", "-", "1", "2", "-", "3", "1">>) }

ComparisonRecords ==
    { Object3(<<"a">>, a, <<"b">>, b, <<"c">>, Num(1)) :
        a \in ComparedValues, b \in ComparedValues }

\* records in which fields repeat a value, exactly or up to conversion
DuplicateRecords ==
    { Object3(<<"a">>, a, <<"b">>, b, <<"c">>, Num(1)) :
        a \in {NaN, Num(1), Bool(TRUE)}, b \in {NaN, Num(1), Bool(TRUE)} }

CaseRecords ==
    AllRecords \cup GuardianRecords \cup SalaryRecords \cup ConditionRecords
      \cup ComparisonRecords \cup DuplicateRecords

\* a caller that holds one rule in its array and one record to validate
InitCase ==
    /\ \E rule \in AllRules : \E dataset \in CaseRecords :
          heap = [r \in Refs \cup {"record"} |->
                    CASE r = "a" -> <<rule>>
                      [] r = "record" -> dataset
                      [] OTHER -> <<>>]
    /\ InitEngine

NextCase ==
    \/ LoadRules("a")
    \/ Validate(heap["record"])

SpecCase == InitCase /\ [][NextCase]_vars

----------------------------------------------------------------------------
(* Properties of the single rules                                          *)

\* C5: for a non-empty record, an enabled rule with target "*" of any kind
\* gets exactly one result per field of the record
C5_OneResultPerField ==
    (op = "validate" /\ arg # <<>>) =>
        \A k \in 1..Len(iterated) :
           (iterated[k].enabled # Bool(FALSE)
              /\ iterated[k].target.field = Star) =>
              /\ ret.kind = "return"
              /\ Len(ResultsOf(ret.value, iterated[k].id)) = Len(arg)

\* a message that is defined and is not the empty string
IsPopulated(message) ==
    /\ message # Undefined
    /\ message # Null
    /\ message # Str(<<>>)

\* C9: every result with passed = false carries a populated message
C9_FailedHasMessage ==
    \A i \in 1..Len(results) :
        ~results[i].passed => IsPopulated(results[i].message)

\* C10: a range rule's result on a value that is neither undefined nor
\* null passes exactly when the value coerces to a finite number within
\* the limits, and a value that does not coerce to a finite number fails
\* with the not-a-valid-number message
C10_RangeFinite ==
    op = "validate" =>
        \A i \in 1..Len(results) :
            LET r == results[i]
                rule == iterated[RuleIndex(iterated, r.ruleId)]
                cfg == rule.configuration
                v == ToNumber(r.value)
                strict == cfg.inclusive = Bool(FALSE)
                minOk == \/ cfg.min = Undefined
                         \/ IF strict THEN v.n > cfg.min.n
                                      ELSE v.n >= cfg.min.n
                maxOk == \/ cfg.max = Undefined
                         \/ IF strict THEN v.n < cfg.max.n
                                      ELSE v.n <= cfg.max.n
            IN  (rule.ruleType = "range" /\ ~IsNullish(r.value)) =>
                   /\ r.passed <=> (IsFin(v) /\ minOk /\ maxOk)
                   /\ ~IsFin(v) =>
                         r.message =
                            Msg("Value '${value}' is not a valid number for range validation",
                                <<r.value>>)

----------------------------------------------------------------------------
(* What holds of the single rules beside the counterexamples above         *)

\* a rule that raises nothing gets one result per field when its target
\* is "*"
OneResultPerFieldUnlessRaised ==
    (op = "validate" /\ arg # <<>> /\ ret.kind = "return") =>
        \A k \in 1..Len(iterated) :
           (iterated[k].enabled # Bool(FALSE)
              /\ iterated[k].target.field = Star) =>
              Len(ResultsOf(ret.value, iterated[k].id)) = Len(arg)

IsLegacy(rule) ==
    /\ rule.ruleType = "crossField"
    /\ rule.configuration.type
          \notin {"conditional", "comparison", "dependency", "businessRule"}

\* outside the legacy cross-field mode a failed result has a message
FailedHasMessageUnlessLegacy ==
    \A i \in 1..Len(results) :
        (~results[i].passed
           /\ ~IsLegacy(iterated[RuleIndex(iterated, results[i].ruleId)]))
          => IsPopulated(results[i].message)

\* the range semantics with "finite" read as "not NaN": the infinities are
\* compared with the limits like any number
RangeNotNaN ==
    op = "validate" =>
        \A i \in 1..Len(results) :
            LET r == results[i]
                rule == iterated[RuleIndex(iterated, r.ruleId)]
                cfg == rule.configuration
                v == ToNumber(r.value)
                strict == cfg.inclusive = Bool(FALSE)
                \* v against a finite limit: -1 below, 0 equal, 1 above
                side(limit) == CASE v.k = "inf" -> 1
                                 [] v.k = "ninf" -> -1
                                 [] v.n > limit.n -> 1
                                 [] v.n < limit.n -> -1
                                 [] OTHER -> 0
                minOk == \/ cfg.min = Undefined
                         \/ side(cfg.min) = 1
                         \/ ~strict /\ side(cfg.min) = 0
                maxOk == \/ cfg.max = Undefined
                         \/ side(cfg.max) = -1
                         \/ ~strict /\ side(cfg.max) = 0
            IN  (rule.ruleType = "range" /\ ~IsNullish(r.value)) =>
                   /\ r.passed <=> (v.k # "nan" /\ minOk /\ maxOk)
                   /\ v.k = "nan" =>
                         r.message =
                            Msg("Value '${value}' is not a valid number for range validation",
                                <<r.value>>)

----------------------------------------------------------------------------
(* Properties of the validators, one rule at a time                        *)

\* the rule a result belongs to
RuleOf(r) == iterated[RuleIndex(iterated, r.ruleId)]

\* String(value) holds nothing but white space
IsBlank(value) ==
    \A i \in 1..Len(ToChars(value)) : ToChars(value)[i] = " "

\* C11: a completeness rule checks required, then notEmpty, then minLength
\* and reports the first failure: undefined/null under required fails with
\* "Required field is missing", an empty or blank string under notEmpty
\* fails with "Field must not be empty", and a check that is not configured
\* causes no failure
C11_CompletenessOrder ==
    op = "validate" =>
        \A i \in 1..Len(results) :
            LET r == results[i]
                cfg == RuleOf(r).configuration
                v == r.value
                missing == cfg.required = Bool(TRUE) /\ IsNullish(v)
                empty == /\ cfg.notEmpty = Bool(TRUE)
                         /\ (IsNullish(v) \/ IsBlank(v))
                short == /\ cfg.minLength # Undefined
                         /\ ~IsNullish(v)
                         /\ Len(ToChars(v)) < cfg.minLength.n
            IN  RuleOf(r).ruleType = "completeness" =>
                  /\ r.passed <=> ~(missing \/ empty \/ short)
                  /\ missing => r.message = Msg("Required field is missing", <<>>)
                  /\ (~missing /\ empty) =>
                        r.message = Msg("Field must not be empty", <<>>)
                  /\ (~missing /\ ~empty /\ short) =>
                        /\ r.message.text = "Field length ${stringValue.length} is below minimum required length of ${rule.configuration.minLength}"
                        /\ r.message.args = <<Num(Len(ToChars(v))), cfg.minLength>>

C11_Witness ==
    /\ op = "validate"
    /\ \E i \in 1..Len(results) :
          /\ RuleOf(results[i]).ruleType = "completeness"
          /\ RuleOf(results[i]).configuration.required = Bool(TRUE)
          /\ RuleOf(results[i]).configuration.notEmpty = Bool(TRUE)
          /\ results[i].value = Str(<<" ", " ">>)
          /\ ~results[i].passed
          /\ results[i].message = Msg("Field must not be empty", <<>>)

\* the calendar position of an ISO date YYYY-MM-DD as one number, yyyymmdd
CalendarKey(s) ==
    LET D(i) == DigitVal(s[i])
    IN  (D(1) * 1000 + D(2) * 100 + D(3) * 10 + D(4)) * 10000
          + (D(6) * 10 + D(7)) * 100 + D(9) * 10 + D(10)

ComparisonMessage(cfg) ==
    Msg("Comparison validation failed: ${field1} ${comparisonOperator} ${field2} condition not met",
        <<cfg.field1, Tag(cfg.comparisonOperator), cfg.field2>>)

IsComparison(rule, operator) ==
    /\ rule.ruleType = "crossField"
    /\ rule.configuration.type = "comparison"
    /\ rule.configuration.comparisonOperator = operator

\* C12: a comparison rule with lessThan on two valid date strings passes
\* exactly when the first date is strictly earlier than the second; if not
\* it fails with the message naming field1, the operator and field2
C12_DateLessThan ==
    op = "validate" =>
        \A i \in 1..Len(results) :
            LET r == results[i]
                cfg == RuleOf(r).configuration
                value1 == Lookup(arg, cfg.field1)
                value2 == Lookup(arg, cfg.field2)
            IN  (IsComparison(RuleOf(r), "lessThan")
                   /\ isValidDate(value1) /\ isValidDate(value2)) =>
                  /\ r.passed <=> CalendarKey(value1.s) < CalendarKey(value2.s)
                  /\ ~r.passed => r.message = ComparisonMessage(cfg)

C12_Witness ==
    /\ op = "validate"
    /\ Get(arg, <<"a">>) = Str(<<"2", "0", "2", "3", "-", "0", "1", "-", "0", "1">>)
    /\ Get(arg, <<"b">>) = Str(<<"2", "0", "2", "3", "-", "1", "2", "-", "3", "1">>)
    /\ \E i \in 1..Len(results) :
          /\ IsComparison(RuleOf(results[i]), "lessThan")
          /\ results[i].passed

IsBusinessRule(rule, name) ==
    /\ rule.ruleType = "crossField"
    /\ rule.configuration.type = "businessRule"
    /\ rule.configuration.businessRule = name

\* C13: minors-consent on a record whose age is a number below 18 fails
\* with the consent message when guardianConsent is falsy, else with the
\* email message when guardianEmail is empty, else passes; with an age of
\* 18 or more, or no age, it passes whatever the guardian fields hold
C13_MinorsConsent ==
    op = "validate" =>
        \A i \in 1..Len(results) :
            LET r == results[i]
                age == Get(arg, <<"a", "g", "e">>)
                consent == Truthy(Get(arg, <<"g", "u", "a", "r", "d", "i", "a", "n", "C", "o", "n", "s", "e", "n", "t">>))
                email == Truthy(Get(arg, <<"g", "u", "a", "r", "d", "i", "a", "n", "E", "m", "a", "i", "l">>))
            IN  IsBusinessRule(RuleOf(r), "minors-consent") =>
                  /\ (IsFin(age) /\ age.n < 18 /\ ~consent) =>
                        /\ ~r.passed
                        /\ r.message = Msg("Guardian consent is required for users under 18", <<>>)
                  /\ (IsFin(age) /\ age.n < 18 /\ consent /\ ~email) =>
                        /\ ~r.passed
                        /\ r.message = Msg("Guardian email is required for users under 18", <<>>)
                  /\ (IsFin(age) /\ age.n < 18 /\ consent /\ email) => r.passed
                  /\ (IsFin(age) /\ age.n >= 18) => r.passed
                  /\ ~HasOwn(arg, <<"a", "g", "e">>) => r.passed

C13_Witness ==
    /\ op = "validate"
    /\ Get(arg, <<"a", "g", "e">>) = Num(15)
    /\ Get(arg, <<"g", "u", "a", "r", "d", "i", "a", "n", "C", "o", "n", "s", "e", "n", "t">>) = Bool(TRUE)
    /\ ~HasOwn(arg, <<"g", "u", "a", "r", "d", "i", "a", "n", "E", "m", "a", "i", "l">>)
    /\ \E i \in 1..Len(results) :
          /\ IsBusinessRule(RuleOf(results[i]), "minors-consent")
          /\ ~results[i].passed
          /\ results[i].message = Msg("Guardian email is required for users under 18", <<>>)

IsConditional(rule) ==
    /\ rule.ruleType = "crossField"
    /\ rule.configuration.type = "conditional"

\* the operator a conditional rule applies: equals when none is configured
OperatorOf(cfg) ==
    IF cfg.conditionOperator = "" THEN "equals" ELSE cfg.conditionOperator

\* C15: a conditional rule (condition field and target field configured)
\* whose condition holds and whose targetCondition
\* is of type required fails, with the "Conditional validation failed: ..."
\* message, exactly when the target field is undefined, null or ""; when
\* the condition does not hold the rule passes
C15_ConditionalRequired ==
    op = "validate" =>
        \A i \in 1..Len(results) :
            LET r == results[i]
                cfg == RuleOf(r).configuration
                target == Lookup(arg, cfg.targetField)
                holds == conditionMet(OperatorOf(cfg),
                                      Lookup(arg, cfg.conditionField),
                                      cfg.conditionValue)
                absent == target \in {Undefined, Null, Str(<<>>)}
            IN  (IsConditional(RuleOf(r))
                   /\ cfg.conditionField # Undefined
                   /\ cfg.targetField # Undefined
                   /\ cfg.targetCondition # Undefined
                   /\ cfg.targetCondition.type = "required") =>
                  /\ r.passed <=> ~(holds /\ absent)
                  /\ ~r.passed =>
                        /\ r.message.text = "Conditional validation failed: ${targetValidation.message}"
                        /\ r.message.args \in
                              { <<cfg.targetCondition.message>>,
                                <<Msg("Field is required based on conditional rule", <<>>)>> }

C15_Witness ==
    /\ op = "validate"
    /\ Get(arg, <<"a">>) = Num(25)
    /\ ~HasOwn(arg, <<"b">>)
    /\ \E i \in 1..Len(results) :
          /\ IsConditional(RuleOf(results[i]))
          /\ RuleOf(results[i]).configuration.conditionOperator
                = "greaterThanOrEqual"
          /\ RuleOf(results[i]).configuration.targetCondition.type
                = "required"
          /\ ~results[i].passed

\* C16: a conditional rule whose configuration lacks conditionField,
\* conditionValue, targetField or targetCondition passes for every record
C16_ConditionalFailsOpen ==
    op = "validate" =>
        \A i \in 1..Len(results) :
            LET cfg == RuleOf(results[i]).configuration
            IN  (IsConditional(RuleOf(results[i]))
                   /\ Undefined \in { cfg.conditionField, cfg.conditionValue,
                                      cfg.targetField, cfg.targetCondition })
                  => results[i].passed

\* the same without conditionValue: a rule that lacks conditionField,
\* targetField or targetCondition passes for every record
ConditionalFailsOpenUnlessValueMissing ==
    op = "validate" =>
        \A i \in 1..Len(results) :
            LET cfg == RuleOf(results[i]).configuration
            IN  (IsConditional(RuleOf(results[i]))
                   /\ Undefined \in { cfg.conditionField, cfg.targetField,
                                      cfg.targetCondition })
                  => results[i].passed

\* the two values of a comparison as the coercion of the rule text gives
\* them: calendar positions when both are valid dates, numbers otherwise
Coerced(value1, value2) ==
    IF isValidDate(value1) /\ isValidDate(value2)
    THEN <<Num(CalendarKey(value1.s)), Num(CalendarKey(value2.s))>>
    ELSE <<ToNumber(value1), ToNumber(value2)>>

\* the outcome of an ordering operator on two coerced values
Ordered(operator, x, y) ==
    CASE operator = "lessThan" -> NumLess(x, y)
      [] operator = "greaterThan" -> NumLess(y, x)
      [] operator = "lessThanOrEqual" -> NumLess(x, y) \/ StrictEquals(x, y)
      [] operator = "greaterThanOrEqual" -> NumLess(y, x) \/ StrictEquals(x, y)

OrderingOperators ==
    {"lessThan", "greaterThan", "lessThanOrEqual", "greaterThanOrEqual"}

SumOperators == {"sumEquals", "sumLessThan", "sumGreaterThan"}

\* the outcome of a sum operator on the numeric coercions of two values
SumOutcome(operator, value1, value2, expectedSum) ==
    LET sum == NumAdd(ToNumber(value1), ToNumber(value2))
    IN  CASE operator = "sumEquals" -> StrictEquals(sum, ToNumber(expectedSum))
          [] operator = "sumLessThan" -> NumLess(sum, ToNumber(expectedSum))
          [] operator = "sumGreaterThan" -> NumLess(ToNumber(expectedSum), sum)

\* C18: under sumEquals, sumLessThan and sumGreaterThan the quantity compared
\* with expectedSum is the sum of the numeric coercions of the two field
\* values, whether or not both of them parse as valid dates
C18_SumIsNumeric ==
    op = "validate" =>
        \A i \in 1..Len(results) :
            LET r == results[i]
                cfg == RuleOf(r).configuration
            IN  (\E q \in SumOperators : IsComparison(RuleOf(r), q)) =>
                    (r.passed <=>
                        SumOutcome(cfg.comparisonOperator,
                                   Lookup(arg, cfg.field1),
                                   Lookup(arg, cfg.field2), cfg.expectedSum))

\* what the code does keep of C18: the sum is numeric unless both values
\* are valid dates
SumIsNumericUnlessDates ==
    op = "validate" =>
        \A i \in 1..Len(results) :
            LET r == results[i]
                cfg == RuleOf(r).configuration
                value1 == Lookup(arg, cfg.field1)
                value2 == Lookup(arg, cfg.field2)
            IN  /\ \E q \in SumOperators : IsComparison(RuleOf(r), q)
                /\ ~(isValidDate(value1) /\ isValidDate(value2))
                => (r.passed <=>
                        SumOutcome(cfg.comparisonOperator, value1, value2,
                                   cfg.expectedSum))


IsDependency(rule) ==
    /\ rule.ruleType = "crossField"
    /\ rule.configuration.type = "dependency"

\* x == y for absent values, null, numbers and texts
SameLoosely(x, y) ==
    CASE IsNullish(x) \/ IsNullish(y) -> IsNullish(x) /\ IsNullish(y)
      [] IsStr(x) /\ IsStr(y) -> x.s = y.s
      [] OTHER -> LET n == ToNumber(x)
                      m == ToNumber(y)
                  IN  ~IsNaNValue(n) /\ n = m

\* C19: a dependency rule with dependentField and targetField configured
\* fails exactly when the record's dependent field loosely equals
\* requiredValue and its target field is undefined, null or ''; the message
\* names the dependent field, the triggering value and the target field.
\* In every other case, and when dependentField or targetField is not
\* configured, the result passes
C19_Dependency ==
    op = "validate" =>
        \A i \in 1..Len(results) :
            LET r == results[i]
                cfg == RuleOf(r).configuration
                configured == cfg.dependentField # Undefined
                                /\ cfg.targetField # Undefined
                dependentValue == Lookup(arg, cfg.dependentField)
                targetValue == Lookup(arg, cfg.targetField)
                triggered == /\ configured
                             /\ SameLoosely(dependentValue, cfg.requiredValue)
                             /\ targetValue \in {Undefined, Null, Str(<<>>)}
            IN  IsDependency(RuleOf(r)) =>
                    /\ r.passed <=> ~triggered
                    /\ triggered =>
                          r.message =
                            Msg("When ${dependentField} is ${requiredValue}, ${targetField} is required",
                                <<cfg.dependentField, cfg.requiredValue,
                                  cfg.targetField>>)

C19_Witness ==
    /\ op = "validate"
    /\ Get(arg, <<"a">>) = Str(<<"5">>)
    /\ ~HasOwn(arg, <<"b">>)
    /\ \E i \in 1..Len(results) :
          /\ IsDependency(RuleOf(results[i]))
          /\ RuleOf(results[i]).configuration.requiredValue = Num(5)
          /\ ~results[i].passed


\* the operator substrings evaluateExpression recognises
RecognisedOperators ==
    { <<"=", "=">>, <<"!", "=">>, <<">", "=">>, <<"<", "=">>, <<">">>, <<"<">>, <<"i", "n", "c", "l", "u", "d", "e", "s">> }

\* a condition no comparison can be evaluated from
IsMalformed(condition) ==
    /\ IsStr(condition)
    /\ condition.s # <<>>
    /\ \A sep \in RecognisedOperators : ~Includes(condition.s, sep)

\* C20: in the legacy cross-field mode a malformed condition (a non-empty
\* text with none of the recognised operators) gives a failed result whose
\* message carries the error text; it is never reported as passed
C20_MalformedConditionFails ==
    op = "validate" =>
        \A i \in 1..Len(results) :
            LET r == results[i]
                cfg == RuleOf(r).configuration
            IN  (/\ IsLegacy(RuleOf(r))
                 /\ cfg.dependentField # Undefined
                 /\ IsMalformed(cfg.condition))
                => (~r.passed /\ IsPopulated(r.message))

\* what the code does with a malformed condition: every result passes
MalformedConditionPasses ==
    op = "validate" =>
        \A i \in 1..Len(results) :
            LET r == results[i]
                cfg == RuleOf(r).configuration
            IN  (/\ IsLegacy(RuleOf(r))
                 /\ cfg.dependentField # Undefined
                 /\ IsMalformed(cfg.condition))
                => r.passed


\* the operators of the legacy evaluator, in the order they are looked for
OperatorPriority == << <<"=", "=">>, <<"!", "=">>, <<">", "=">>, <<"<", "=">>, <<">">>, <<"<">>, <<"i", "n", "c", "l", "u", "d", "e", "s">> >>

\* the one operator applied to an expression text: the first of the
\* priority order that occurs in it
AppliedOperator(e) ==
    LET i == CHOOSE k \in 1..Len(OperatorPriority) :
                 /\ Includes(e, OperatorPriority[k])
                 /\ \A j \in 1..(k - 1) : ~Includes(e, OperatorPriority[j])
    IN  OperatorPriority[i]

\* the right-hand operand: {fieldName} is the record's field, any other
\* text is a literal
OperandValue(text, dataset) ==
    IF Len(text) >= 2 /\ Head(text) = "{" /\ text[Len(text)] = "}"
    THEN Get(dataset, SubSeq(text, 2, Len(text) - 1))
    ELSE Str(text)

\* the outcome of one operator on the dependent value and the operand
OperatorOutcome(operator, x, y) ==
    CASE operator = <<"=", "=">> -> SameLoosely(x, y)
      [] operator = <<"!", "=">> -> ~SameLoosely(x, y)
      [] operator = <<">", "=">> ->
            Ordered("greaterThanOrEqual", ToNumber(x), ToNumber(y))
      [] operator = <<"<", "=">> ->
            Ordered("lessThanOrEqual", ToNumber(x), ToNumber(y))
      [] operator = <<">">> -> Ordered("greaterThan", ToNumber(x), ToNumber(y))
      [] operator = <<"<">> -> Ordered("lessThan", ToNumber(x), ToNumber(y))
      [] operator = <<"i", "n", "c", "l", "u", "d", "e", "s">> -> Includes(ToChars(x), ToChars(y))

\* C21: the legacy evaluator applies exactly one operator, the first of
\* ==, !=, >=, <=, >, <, includes that occurs in the expression text, to the
\* dependent field's value and the right-hand operand ({fieldName} is the
\* record's field, anything else a literal); == and != compare loosely, the
\* ordering operators numerically, includes tests containment
C21_OneOperatorByPriority ==
    op = "validate" =>
        \A i \in 1..Len(results) :
            LET r == results[i]
                cfg == RuleOf(r).configuration
                e == cfg.condition.s
                operator == AppliedOperator(e)
            IN  (/\ IsLegacy(RuleOf(r))
                 /\ cfg.dependentField # Undefined
                 /\ IsStr(cfg.condition)
                 /\ e # <<>>
                 /\ ~IsMalformed(cfg.condition))
                => (r.passed <=>
                      OperatorOutcome(operator,
                                      Lookup(arg, cfg.dependentField),
                                      OperandValue(SplitRight(e, operator),
                                                   arg)))

C21_Witness ==
    /\ op = "validate"
    /\ Get(arg, <<"a">>) = Num(5)
    /\ Get(arg, <<"b">>) = Num(0)
    /\ \E i \in 1..Len(results) :
          /\ IsLegacy(RuleOf(results[i]))
          /\ RuleOf(results[i]).configuration.condition = Str(<<">", "=", " ", "{", "b", "}">>)
          /\ results[i].passed


IsUniqueness(rule) == rule.ruleType = "uniqueness"

\* two values are equal: the same type and the same value (NaN, as in
\* JavaScript, is equal to nothing)
SameValue(x, y) == x = y /\ ~IsNaNValue(x)

\* C22: a uniqueness rule on a field whose value v is neither undefined nor
\* null passes exactly when no other field of the record holds a value equal
\* to v, and fails with "Value '<v>' is not unique within the dataset"
\* otherwise; the scope has no effect, and two matched fields with equal
\* values both fail
C22_UniqueWithinRecord ==
    op = "validate" =>
        \A i \in 1..Len(results) :
            LET r == results[i]
                repeated == \E k \in 1..Len(arg) :
                                /\ arg[k].name # r.field
                                /\ SameValue(arg[k].value, r.value)
            IN  (IsUniqueness(RuleOf(r)) /\ ~IsNullish(r.value)) =>
                  /\ r.passed <=> ~repeated
                  /\ ~r.passed =>
                        r.message =
                          Msg("Value '${value}' is not unique within the dataset",
                              <<r.value>>)
                  /\ \A j \in 1..Len(results) :
                        (/\ results[j].ruleId = r.ruleId
                         /\ results[j].field # r.field
                         /\ SameValue(results[j].value, r.value))
                        => (~r.passed /\ ~results[j].passed)

C22_Witness ==
    /\ op = "validate"
    /\ Get(arg, <<"a">>) = Num(1)
    /\ Get(arg, <<"b">>) = Bool(TRUE)
    /\ Get(arg, <<"c">>) = Num(1)
    /\ \E i, j, k \in 1..Len(results) :
          /\ IsUniqueness(RuleOf(results[i]))
          /\ RuleOf(results[i]).configuration.scope = "collection"
          /\ results[i].field = <<"a">> /\ ~results[i].passed
          /\ results[j].field = <<"c">> /\ ~results[j].passed
          /\ results[k].field = <<"b">> /\ results[k].passed


IsFormat(rule) == rule.ruleType = "format"

\* the message of each built-in type checker
TypeMessages ==
    [ email |-> "Value '${value}' is not a valid email address",
      phone |-> "Value '${value}' is not a valid phone number",
      url |-> "Value '${value}' is not a valid URL",
      number |-> "Value '${value}' is not a valid number",
      date |-> "Value '${value}' is not a valid date" ]

\* C23: for a format rule with a dataType and a value that is neither
\* undefined nor null, a failing type check is the rule's result: passed is
\* false and the message is the type checker's, with the literal value,
\* whatever the pattern; a rule with neither dataType nor pattern passes
\* every value
C23_TypeCheckFirst ==
    \A i \in 1..Len(results) :
        LET r == results[i]
            cfg == RuleOf(r).configuration
            text == ToChars(r.value)
        IN  IsFormat(RuleOf(r)) =>
              /\ (/\ cfg.dataType # ""
                  /\ ~IsNullish(r.value)
                  /\ ~checkDataType(text, cfg.dataType).passed)
                 => /\ ~r.passed
                    /\ r.message =
                         Msg(TypeMessages[cfg.dataType], <<Str(text)>>)
              /\ (cfg.dataType = "" /\ cfg.pattern = Undefined) => r.passed

C23_Witness ==
    /\ op = "validate"
    /\ \E i \in 1..Len(results) :
          /\ IsFormat(RuleOf(results[i]))
          /\ RuleOf(results[i]).configuration.dataType = "email"
          /\ RuleOf(results[i]).configuration.pattern = Str(<<"a", ".", "*">>)
          /\ results[i].value = Str(<<"a", "b", "c">>)
          /\ ~results[i].passed
          /\ results[i].message =
               Msg("Value '${value}' is not a valid email address",
                   <<Str(<<"a", "b", "c">>)>>)


\* C24: format, range and uniqueness rules do not imply presence: a matched
\* field whose value is undefined or null gets a passed result from each of
\* them, whatever the configuration
C24_AbsentValuePasses ==
    \A i \in 1..Len(results) :
        (/\ RuleOf(results[i]).ruleType \in {"format", "range", "uniqueness"}
         /\ results[i].value \in {Undefined, Null})
        => results[i].passed

C24_Witness ==
    /\ op = "validate"
    /\ \E i \in 1..Len(results) :
          /\ RuleOf(results[i]).ruleType = "range"
          /\ RuleOf(results[i]).configuration.min = Num(0)
          /\ RuleOf(results[i]).configuration.inclusive = Bool(FALSE)
          /\ results[i].value = Null
          /\ results[i].passed


-----------------------------------------------------------------------------
(* The target patterns: one rule with the pattern under study, followed by *)
(* a rule for every field, and one record                                  *)

\* target patterns without a wildcard
ExactPatterns ==
    { <<"e", "m", "a", "i", "l">>, <<"E", "m", "a", "i", "l">>, <<"a", "g", "e">>, <<"p", "h", "o", "n", "e">>, <<"h", "a", "s", "O", "w", "n", "P", "r", "o", "p", "e", "r", "t", "y">>, <<"a", ".", "b">> }

\* target patterns with a wildcard
WildcardPatterns ==
    { <<"*", "e", "m", "a", "i", "l", "*">>, <<"*", "a", "g", "e", "*">>, <<"e", "*", "l">>, <<"*", "i", "d">>, <<"a", "*", "b">>, <<"a", ".", "*">>, <<"*", "*">> }

TargetRule(pattern) ==
    Rule("target", "completeness", pattern,
         [NoConfiguration EXCEPT !.required = Bool(TRUE)])

AfterRule ==
    Rule("after", "completeness", Star,
         [NoConfiguration EXCEPT !.required = Bool(TRUE)])

\* the field names of the records
TargetNames ==
    { <<"e", "m", "a", "i", "l">>, <<"E", "m", "a", "i", "l">>, <<"u", "s", "e", "r", "E", "m", "a", "i", "l">>, <<"a", "g", "e">>, <<"U", "s", "a", "g", "e">>, <<"i", "d">>, <<"e", "l">>,
      <<"h", "a", "s", "O", "w", "n", "P", "r", "o", "p", "e", "r", "t", "y">>, <<"a", ".", "b">>, <<"a", "x", "b">>, <<"a", "b">> }

\* records of up to three fields, in every order
TargetRecords ==
    { <<>> }
      \cup { << Field(n, Num(1)) >> : n \in TargetNames }
      \cup { << Field(p[1], Num(1)), Field(p[2], Num(2)) >> :
               p \in {q \in TargetNames \X TargetNames : q[1] # q[2]} }
      \cup { << Field(n, Num(1)), Field(m, Num(2)), Field(k, Num(3)) >> :
               n \in {<<"e", "m", "a", "i", "l">>, <<"a", "g", "e">>, <<"a", ".", "b">>},
               m \in {<<"E", "m", "a", "i", "l">>, <<"u", "s", "e", "r", "E", "m", "a", "i", "l">>, <<"U", "s", "a", "g", "e">>, <<"a", "x", "b">>},
               k \in {<<"e", "l">>, <<"h", "a", "s", "O", "w", "n", "P", "r", "o", "p", "e", "r", "t", "y">>, <<"a", "b">>, <<"i", "d">>} }

InitTarget ==
    /\ \E pattern \in ExactPatterns \cup WildcardPatterns :
       \E dataset \in TargetRecords :
          heap = [r \in Refs \cup {"record"} |->
                    CASE r = "a" -> << TargetRule(pattern), AfterRule >>
                      [] r = "record" -> dataset
                      [] OTHER -> <<>>]
    /\ InitEngine

NextTarget ==
    \/ LoadRules("a")
    \/ Validate(heap["record"])

SpecTarget == InitTarget /\ [][NextTarget]_vars

\* the fields of the results of one rule, in the order of the list
FieldsOf(list, id) ==
    LET own == ResultsOf(list, id)
    IN  [i \in 1..Len(own) |-> own[i].field]

\* the target pattern of the rule under study
PatternOf(ruleList) == ruleList[1].target.field

\* C25: a target pattern without a wildcard matches only the field whose
\* name is the pattern itself, case-sensitively, and only if it is a key of
\* the record; a rule whose pattern matches no field gives no result and no
\* error, and the rules after it are still evaluated
C25_ExactTarget ==
    (op = "validate" /\ iterated # <<>>
       /\ PatternOf(iterated) \in ExactPatterns) =>
        /\ ret.kind = "return"
        /\ FieldsOf(results, "target") =
              IF \E k \in 1..Len(arg) : arg[k].name = PatternOf(iterated)
              THEN << PatternOf(iterated) >>
              ELSE <<>>
        /\ FieldsOf(results, "after") = Keys(arg)

\* what the code keeps of C25: it holds of every record that has no field
\* named hasOwnProperty
ExactTargetUnlessShadowed ==
    (/\ op = "validate"
     /\ iterated # <<>>
     /\ PatternOf(iterated) \in ExactPatterns
     /\ \A k \in 1..Len(arg) : arg[k].name # <<"h", "a", "s", "O", "w", "n", "P", "r", "o", "p", "e", "r", "t", "y">>) =>
        /\ ret.kind = "return"
        /\ FieldsOf(results, "target") =
              IF \E k \in 1..Len(arg) : arg[k].name = PatternOf(iterated)
              THEN << PatternOf(iterated) >>
              ELSE <<>>
        /\ FieldsOf(results, "after") = Keys(arg)


\* the whole name equals the pattern, letters compared without case and
\* each * standing for any run of characters
GlobMatch(pattern, name) ==
    LET p == LowerAll(pattern)
        s == LowerAll(name)
        M[i \in 0..Len(p), j \in 0..Len(s)] ==
            IF i = 0 THEN j = 0
            ELSE IF p[i] = "*"
            THEN M[i - 1, j] \/ (j > 0 /\ M[i, j - 1])
            ELSE j > 0 /\ p[i] = s[j] /\ M[i - 1, j - 1]
    IN  M[Len(p), Len(s)]

\* the names of the record that a wildcard pattern stands for, in the
\* record's order
GlobFields(pattern, dataset) ==
    LET Matches(name) == GlobMatch(pattern, name)
    IN  SelectSeq(Keys(dataset), Matches)

\* C26: a target pattern with a * (other than "*" alone) matches a field
\* name exactly when the whole name, compared without case, equals the
\* pattern with each * standing for zero or more arbitrary characters; the
\* matching fields come in the record's field order
C26_WildcardTarget ==
    (op = "validate" /\ iterated # <<>>
       /\ PatternOf(iterated) \in WildcardPatterns) =>
        /\ ret.kind = "return"
        /\ FieldsOf(results, "target") = GlobFields(PatternOf(iterated), arg)

\* the characters a regular expression reads as more than themselves
IsLiteralPattern(pattern) ==
    \A i \in 1..Len(pattern) :
        pattern[i] \in Lower \cup Upper \cup Digits \cup {"*", "_"}

\* what the code keeps of C26: it holds of the patterns made of letters,
\* digits, _ and *
WildcardTargetOfLiterals ==
    (op = "validate" /\ iterated # <<>>
       /\ PatternOf(iterated) \in WildcardPatterns
       /\ IsLiteralPattern(PatternOf(iterated))) =>
        /\ ret.kind = "return"
        /\ FieldsOf(results, "target") = GlobFields(PatternOf(iterated), arg)


-----------------------------------------------------------------------------
(* Properties of the cross-field rules as a whole                          *)

\* C29: the outcome of a crossField rule depends on the record and on the
\* rule's configuration only, not on the field its target matched: all the
\* results of one crossField rule in one validate call have the same passed
\* flag and the same message
C29_CrossFieldSameForAllFields ==
    \A i, j \in 1..Len(results) :
        (/\ results[i].ruleId = results[j].ruleId
         /\ RuleOf(results[i]).ruleType = "crossField")
        => /\ results[i].passed = results[j].passed
           /\ results[i].message = results[j].message

C29_Witness ==
    /\ op = "validate"
    /\ \E i, j \in 1..Len(results) :
          /\ IsBusinessRule(RuleOf(results[i]), "email-phone-required")
          /\ results[i].ruleId = results[j].ruleId
          /\ results[i].field # results[j].field
          /\ results[i].value # results[j].value
          /\ ~results[i].passed
          /\ ~results[j].passed


-----------------------------------------------------------------------------
(* A caller that keeps the lists validate returned                         *)

\* const kept = results: the caller keeps the list validate just returned,
\* which is the array this.results names
Keep ==
    /\ op = "validate"
    /\ ret.kind = "return"
    /\ caller' = [holds |-> TRUE, same |-> TRUE, snapshot |-> ret.value,
                  now |-> results]
    /\ UNCHANGED <<heap, rules, results, ret, op, arg, loaded, iterated,
                   repeat, server>>

InitKeep ==
    /\ \E first \in CoreRules : \E second \in CoreRules :
          heap = [r \in Refs |->
                    CASE r = "a" -> << first >>
                      [] r = "b" -> << second, first >>
                      [] OTHER -> <<>>]
    /\ InitEngine

NextKeep ==
    \/ \E ref \in CallerRefs : LoadRules(ref)
    \/ \E dataset \in CoreRecords : Validate(dataset)
    \/ Keep

SpecKeep == InitKeep /\ [][NextKeep]_vars

\* C30: a list returned by validate is never changed by later operations of
\* the engine: whatever loadRules and validate calls follow, its length and
\* its elements stay what they were when it was returned
C30_ReturnedListStable ==
    caller.holds => caller.now = caller.snapshot

C30_Witness ==
    /\ caller.holds
    /\ ~caller.same
    /\ Len(caller.snapshot) > 0
    /\ op = "validate"
    /\ ret.kind = "return"
    /\ Len(ret.value) # Len(caller.snapshot)
    /\ loaded.ref # loaded.previous


-----------------------------------------------------------------------------
(* The HTTP server: POST /validate on the shared engine, and the rule      *)
(* management API on the rules file.  A handler runs from one await to the *)
(* next without interruption; the reads and writes of the file happen      *)
(* between these runs.                                                     *)

MaxRequests == 3

RequestNames == << "r1", "r2", "r3", "r4" >>

Requests == { RequestNames[k] : k \in 1..MaxRequests }

\* the bodies of the requests
HttpRecords == { validData, invalidData }
HttpRules == { RequiredField, AgeRange }
UpdatedRule == [RequiredField EXCEPT !.severity = "warning"]

Idle ==
    [kind |-> "none", pc |-> "idle", payload |-> <<>>, overlapped |-> FALSE,
     response |-> [status |-> 0]]

\* what fs.readFile and JSON.parse give loadRules: rulesData.rules || [],
\* and [] from the catch branch while the file is missing, being written
\* or garbled
readRulesFile(srv) ==
    IF srv.writers = {} /\ srv.file.parsable THEN srv.file.rules ELSE <<>>

\* a faulty variant: the handler validates with the rules the engine holds
validateHandler_noLoad(engineRules, engineResults, own, data) ==
    [rules |-> engineRules,
     outcome |-> validate(heap[engineRules], data, engineResults)]

\* validationEngine.loadRules(rules); validationEngine.validate(data)
validateHandler(engineRules, engineResults, own, data) ==
    LET loadedRules == loadRules(engineRules, own)
    IN  [rules |-> loadedRules,
         outcome |-> validate(heap[loadedRules], data, engineResults)]

InitHttp ==
    /\ heap = [r \in Refs \cup Requests |-> <<>>]
    /\ NewEngine
    /\ caller = NoList
    /\ \E initial \in { <<>>, << RequiredField >> } :
          server = [file |-> [rules |-> initial, parsable |-> TRUE],
                    writers |-> {}, acked |-> {},
                    requests |-> [i \in Requests |-> Idle]]

\* the request of a given name, changed
WithRequest(i, request) ==
    [server EXCEPT !.requests[i] = request]

EngineUnchanged ==
    UNCHANGED <<rules, results, ret, op, arg, loaded, iterated, repeat,
                caller>>

\* a request arrives; its handler runs up to the await of the file read
Receive(i, kind, payload) ==
    /\ server.requests[i].pc = "idle"
    /\ \A k \in 1..MaxRequests :
          (RequestNames[k] = i) =>
             \A j \in 1..(k - 1) :
                server.requests[RequestNames[j]].pc # "idle"
    /\ server' = WithRequest(i, [Idle EXCEPT !.kind = kind,
                                             !.pc = "reading",
                                             !.payload = payload])
    /\ UNCHANGED heap
    /\ EngineUnchanged

\* the file is read for request i: a new array with what it holds now
ReadFile(i) ==
    /\ server.requests[i].pc = "reading"
    /\ heap' = [heap EXCEPT ![i] = readRulesFile(server)]
    /\ server' = WithRequest(i, [server.requests[i] EXCEPT !.pc = "resume"])
    /\ EngineUnchanged

\* POST /validate after the await: loadRules, validate, res.json
ContinueValidate(i) ==
    /\ server.requests[i].pc = "resume"
    /\ server.requests[i].kind = "validate"
    /\ \E handled \in {validateHandler(rules, results, i,
                                       server.requests[i].payload)} :
          /\ rules' = handled.rules
          /\ results' = handled.outcome.results
          /\ ret' = IF handled.outcome.kind = "throw"
                    THEN [kind |-> "throw", error |-> handled.outcome.error]
                    ELSE [kind |-> "return",
                          value |-> handled.outcome.results]
          /\ iterated' = heap[handled.rules]
          /\ caller' = KeptList(caller, handled.outcome.results)
          /\ server' = WithRequest(i,
                [server.requests[i] EXCEPT
                    !.pc = "done",
                    !.response =
                       IF handled.outcome.kind = "throw"
                       THEN [status |-> 500,
                             error |-> handled.outcome.error]
                       ELSE [status |-> 200,
                             results |-> handled.outcome.results]])
    /\ loaded' = [ref |-> i, snapshot |-> heap[i], previous |-> loaded.ref]
    /\ op' = "validate"
    /\ arg' = server.requests[i].payload
    /\ repeat' = FALSE
    /\ UNCHANGED heap

\* GET /api/rules after the await: res.json({ rules })
ContinueList(i) ==
    /\ server.requests[i].pc = "resume"
    /\ server.requests[i].kind = "list"
    /\ server' = WithRequest(i,
          [server.requests[i] EXCEPT
              !.pc = "done",
              !.response = [status |-> 200, rules |-> heap[i]]])
    /\ UNCHANGED heap
    /\ EngineUnchanged

\* POST /api/rules after the read: 409, or push and start saving
ContinueCreate(i) ==
    /\ server.requests[i].pc = "resume"
    /\ server.requests[i].kind = "create"
    /\ LET newRule == server.requests[i].payload
       IN  IF newRule.id \in IdsOf(heap[i])
           THEN /\ server' = WithRequest(i,
                      [server.requests[i] EXCEPT
                          !.pc = "done", !.response = [status |-> 409]])
                /\ UNCHANGED heap
           ELSE /\ heap' = [heap EXCEPT ![i] = Append(@, newRule)]
                /\ server' = WithRequest(i,
                      [server.requests[i] EXCEPT !.pc = "saving"])
    /\ EngineUnchanged

\* PUT /api/rules/:id after the read: 404, or replace and start saving
ContinueUpdate(i) ==
    /\ server.requests[i].pc = "resume"
    /\ server.requests[i].kind = "update"
    /\ LET updatedRule == server.requests[i].payload
       IN  IF updatedRule.id \notin IdsOf(heap[i])
           THEN /\ server' = WithRequest(i,
                      [server.requests[i] EXCEPT
                          !.pc = "done", !.response = [status |-> 404]])
                /\ UNCHANGED heap
           ELSE /\ heap' = [heap EXCEPT
                              ![i][RuleIndex(heap[i], updatedRule.id)] =
                                  updatedRule]
                /\ server' = WithRequest(i,
                      [server.requests[i] EXCEPT !.pc = "saving"])
    /\ EngineUnchanged

\* DELETE /api/rules/:id after the read: 404, or filter and start saving
ContinueDelete(i) ==
    /\ server.requests[i].pc = "resume"
    /\ server.requests[i].kind = "delete"
    /\ LET ruleId == server.requests[i].payload
           Others(r) == r.id # ruleId
           filteredRules == SelectSeq(heap[i], Others)
       IN  IF Len(filteredRules) = Len(heap[i])
           THEN /\ server' = WithRequest(i,
                      [server.requests[i] EXCEPT
                          !.pc = "done", !.response = [status |-> 404]])
                /\ UNCHANGED heap
           ELSE /\ heap' = [heap EXCEPT ![i] = filteredRules]
                /\ server' = WithRequest(i,
                      [server.requests[i] EXCEPT !.pc = "saving"])
    /\ EngineUnchanged

\* fs.writeFile opens the file, which empties it; from here on a rule that
\* a DELETE removes is no longer stored
BeginWrite(i) ==
    /\ server.requests[i].pc = "saving"
    /\ server' =
         [server EXCEPT
            !.writers = @ \cup {i},
            !.acked = IF server.requests[i].kind = "delete"
                      THEN @ \ {server.requests[i].payload} ELSE @,
            !.requests =
               [j \in Requests |->
                  IF j = i
                  THEN [@[j] EXCEPT !.pc = "writing",
                                    !.overlapped = server.writers # {}]
                  ELSE IF j \in server.writers
                  THEN [@[j] EXCEPT !.overlapped = TRUE]
                  ELSE @[j]]]
    /\ UNCHANGED heap
    /\ EngineUnchanged

\* fs.writeFile completes: the file holds the array of request i, or, if
\* another write ran at the same time, possibly a mixture that no longer
\* parses
EndWrite(i) ==
    /\ server.requests[i].pc = "writing"
    /\ \E written \in
            { [rules |-> heap[i], parsable |-> TRUE] }
              \cup (IF server.requests[i].overlapped
                    THEN { [rules |-> <<>>, parsable |-> FALSE] }
                    ELSE {}) :
          server' =
             [server EXCEPT
                !.file = written,
                !.writers = @ \ {i},
                !.requests[i] = [@ EXCEPT !.pc = "saved"]]
    /\ UNCHANGED heap
    /\ EngineUnchanged

\* after the await of saveRules: 201, 200 or 204
Respond(i) ==
    /\ server.requests[i].pc = "saved"
    /\ LET kind == server.requests[i].kind
       IN  server' =
             [server EXCEPT
                !.acked = IF kind = "create"
                          THEN @ \cup {server.requests[i].payload.id}
                          ELSE @,
                !.requests[i] =
                   [@ EXCEPT !.pc = "done",
                             !.response =
                                [status |-> CASE kind = "create" -> 201
                                              [] kind = "update" -> 200
                                              [] kind = "delete" -> 204]]]
    /\ UNCHANGED heap
    /\ EngineUnchanged

NextHttp ==
    \/ \E i \in Requests : \E data \in HttpRecords :
          Receive(i, "validate", data)
    \/ \E i \in Requests : Receive(i, "list", <<>>)
    \/ \E i \in Requests : \E rule \in HttpRules : Receive(i, "create", rule)
    \/ \E i \in Requests : Receive(i, "update", UpdatedRule)
    \/ \E i \in Requests : Receive(i, "delete", RequiredField.id)
    \/ \E i \in Requests : ReadFile(i)
    \/ \E i \in Requests : ContinueValidate(i)
    \/ \E i \in Requests : ContinueList(i)
    \/ \E i \in Requests : ContinueCreate(i)
    \/ \E i \in Requests : ContinueUpdate(i)
    \/ \E i \in Requests : ContinueDelete(i)
    \/ \E i \in Requests : BeginWrite(i)
    \/ \E i \in Requests : EndWrite(i)
    \/ \E i \in Requests : Respond(i)

SpecHttp == InitHttp /\ [][NextHttp]_vars

\* C27: the results sent for a /validate request are those of the rule set
\* this request read and loaded, on this request's record: whatever other
\* requests do in between, no other loadRules comes between a request's
\* loadRules and its validate, and no result of another record is sent
C27_ValidateUsesOwnRules ==
    \A i \in DOMAIN server.requests :
        LET request == server.requests[i]
            own == validate(heap[i], request.payload, <<>>)
        IN  (request.kind = "validate" /\ request.pc = "done") =>
              /\ own.kind = "return" =>
                    /\ request.response.status = 200
                    /\ request.response.results = own.results
              /\ own.kind = "throw" => request.response.status = 500

C27_Witness ==
    \E i, j \in DOMAIN server.requests :
        /\ server.requests[i].kind = "validate"
        /\ server.requests[j].kind = "validate"
        /\ server.requests[i].pc = "done"
        /\ server.requests[j].pc = "done"
        /\ heap[i] # heap[j]
        /\ heap[i] # <<>>
        /\ rules = j
        /\ server.requests[i].response.status = 200
        /\ server.requests[j].response.status = 200
        /\ server.requests[i].response.results
             # server.requests[j].response.results


\* the rules GET /api/rules would return now
StoredRules == readRulesFile(server)

\* the stored rule set never holds two rules with the same id
NoDuplicateIds ==
    \A k, l \in 1..Len(server.file.rules) :
        server.file.rules[k].id = server.file.rules[l].id => k = l

\* C28: under any interleaving of create, update and delete requests, a
\* rule whose POST /api/rules was answered 201 is in the stored rule set
\* from then on, until a DELETE for its id succeeds; and the stored rule
\* set never holds two rules with the same id.  Read at the moments when no
\* write of the file is under way
C28_CreatedRuleStays ==
    /\ server.writers = {} => server.acked \subseteq IdsOf(StoredRules)
    /\ NoDuplicateIds

====
